---- MODULE Spec2Model ----
(***************************************************************************)
(* wagtail-meilisearch: the index synchronisation layer.                   *)
(*                                                                         *)
(* The model follows src/src/wagtail_meilisearch (index.py, rebuilder.py,  *)
(* backend.py, settings.py, utils.py).  The remote engine, the shared      *)
(* cache and the clock are the environment.                                *)
(***************************************************************************)
EXTENDS Integers, Sequences, FiniteSets, TLC

VARIABLES
    cfg,        \* the backend's configuration (params): strategy, skip list, delta window
    indexes,    \* MeiliIndexRegistry.indexes: label -> handle
    cache,      \* django cache: "meili_index_" + label -> handle
    remote,     \* the remote engine: label -> [exists, docs]
    made,       \* per label, how many MeiliSearchModelIndex objects were constructed
    given,      \* per label, the handle objects get_index_for_model has returned
    run,        \* the rebuilder run in progress (update_index: start .. finish)
    lastOp,     \* the operation that ran last: its name, target, result and remote calls
    bulk,       \* one add_items call on its own: the input batch and the calls it made
    dl,         \* one _check_deltas call on its own: its input and its result
    req,        \* one call of a settings, document or ranking function on its own
    srch        \* a MeiliSearchResults object, the engine it queries and its last call

vars == <<cfg, indexes, cache, remote, made, given, run, lastOp, bulk, dl, req, srch>>

(***************************************************************************)
(* Bounds                                                                  *)
(***************************************************************************)
MaxTime == 3        \* timestamps and the clock range over 1..MaxTime
MaxShift == 1       \* delta windows shift the clock by -MaxShift..MaxShift
MaxObjs == 2        \* length of the object lists given to _check_deltas on its own
MaxBatch == 201     \* length of the batches given to add_items on its own
MaxId == 1          \* primary keys of the records the backend is given: 1..MaxId
MaxRunLog == 2      \* document calls recorded per rebuilder run
MaxHits == 2        \* hits in one index's part of a search response
MaxStop == 2        \* result windows [start:stop] have start < MaxStop and stop <= MaxStop
MaxBuilds == 3      \* documents built for one record in one process
MaxThreads == 2     \* threads inside get_index_for_model at once
MaxName == 2        \* length of an app label and of a model class name

(***************************************************************************)
(* Program constants                                                       *)
(***************************************************************************)
ChunkSize == 100    \* items[x : x + 100]

\* Field values: a datetime at time t, None, or a value that cannot be compared
\* with `since` (a naive datetime, a date: val > since raises TypeError)
DateTime(t) == [k |-> "datetime", t |-> t]
NoneVal == [k |-> "None", t |-> 0]
NaiveVal == [k |-> "naive", t |-> 0]

\* MeiliSearchModelIndex.delta_fields, in the order the code scans them
delta_fields == <<"created_at", "updated_at", "first_published_at", "last_published_at">>

DeltaFieldSet == {delta_fields[i] : i \in 1..Len(delta_fields)}

(***************************************************************************)
(* Content models.  label is model._meta.label as a character sequence,    *)
(* fields the names in model._meta.fields, search_fields the declared      *)
(* index fields.                                                           *)
(***************************************************************************)
TitleField == [kind |-> "search", name |-> "title"]

PageModel == [label |-> <<"a", ".", "P">>,
              fields |-> {"id", "title", "updated_at", "first_published_at"},
              search_fields |-> <<TitleField>>]

PlainModel == [label |-> <<"a", ".", "Q">>, fields |-> {"id", "title"},
               search_fields |-> <<TitleField>>]

Models == {PageModel, PlainModel}

\* a replace that drops the character instead of putting the new one in its place
ReplaceDropping(s, from, to) == SelectSeq(s, LAMBDA c : c # from)

\* str.replace(".", "-") on a character sequence
Replace(s, from, to) == [i \in 1..Len(s) |-> IF s[i] = from THEN to ELSE s[i]]

get_index_label(model) == Replace(model.label, ".", "-")

Labels == {get_index_label(m) : m \in Models}

ModelOfLabel(l) == CHOOSE m \in Models : get_index_label(m) = l

(***************************************************************************)
(* The delta window.  update_delta is falsy (None: not configured, or an   *)
(* empty dict) or the keyword arguments of arrow's shift, held here as the *)
(* signed number of time units they shift the clock by.                    *)
(***************************************************************************)
NoDelta == [truthy |-> FALSE, shift |-> 0]

Window(s) == [truthy |-> TRUE, shift |-> s]

Windows == {Window(s) : s \in (0 - MaxShift)..MaxShift}

Times == 1..MaxTime

\* `val and val > since`: None is falsy, a naive value raises TypeError (swallowed)
NewerThan(val, since) == val.k = "datetime" /\ val.t > since

\* the delta fields of obj, in scan order, that pass the test
Matches(obj, since) ==
    SelectSeq(delta_fields,
              LAMBDA f : f \in DOMAIN obj.attrs /\ NewerThan(obj.attrs[f], since))

\* cached_property _has_date_fields
has_date_fields(model) == (model.fields \cap DeltaFieldSet) # {}

\* the inner loop with `continue` in place of `break`: one append per matching field
CheckOneNoBreak(model, obj, since) ==
    IF has_date_fields(model)
    THEN [i \in 1..Len(Matches(obj, since)) |-> obj]
    ELSE <<>>

\* one iteration of the loop over objects: append obj at its first matching field, break
CheckOne(model, obj, since) ==
    IF has_date_fields(model) /\ Len(Matches(obj, since)) > 0
    THEN <<obj>>
    ELSE <<>>

RECURSIVE CheckFrom(_, _, _, _)
CheckFrom(model, objects, since, i) ==
    IF i > Len(objects) THEN <<>>
    ELSE CheckOne(model, objects[i], since) \o CheckFrom(model, objects, since, i + 1)

\* MeiliSearchModelIndex._check_deltas
check_deltas(model, update_delta, now, objects) ==
    IF ~update_delta.truthy THEN <<>>
    ELSE CheckFrom(model, objects, now + update_delta.shift, 1)

(***************************************************************************)
(* Records.  attrs holds the delta-field attributes the instance has       *)
(* (hasattr), each with its value; title is its one search field.          *)
(***************************************************************************)
Attr1(f, v) == [x \in {f} |-> v]

Attr2(f, v, g, w) == [x \in {f, g} |-> IF x = f THEN v ELSE w]

NoAttrs == [x \in {} |-> NoneVal]

Vals == {NoneVal, NaiveVal} \cup {DateTime(t) : t \in Times}

\* the shapes of instance the filter tells apart
AttrKinds ==
    {NoAttrs}
    \cup {Attr1("updated_at", v) : v \in Vals}
    \cup {Attr1("created_at", DateTime(1)),
          Attr2("created_at", NaiveVal, "updated_at", DateTime(MaxTime)),
          Attr2("created_at", DateTime(MaxTime), "updated_at", DateTime(MaxTime)),
          Attr2("first_published_at", NoneVal, "last_published_at", DateTime(MaxTime))}

Record(id, attrs) == [id |-> id, attrs |-> attrs, title |-> "t"]

\* the lists of at most n records, numbered by position
RecordLists(n) ==
    UNION {{[i \in 1..len |-> Record(i, ks[i])] : ks \in [1..len -> AttrKinds]} : len \in 0..n}

(***************************************************************************)
(* _check_deltas on its own                                                *)
(***************************************************************************)
DlIdle == [phase |-> "idle"]

ReqIdle == [phase |-> "idle"]

SrchIdle == [phase |-> "idle"]

DlCalls ==
    {[phase |-> "called", model |-> m, update_delta |-> d, now |-> t,
      objects |-> objs, out |-> <<>>] :
     m \in Models, d \in Windows \cup {NoDelta}, t \in Times,
     objs \in RecordLists(MaxObjs)}

DlCheckDeltas ==
    /\ dl.phase = "called"
    /\ dl' = [dl EXCEPT !.phase = "returned",
                        !.out = check_deltas(dl.model, dl.update_delta, dl.now, dl.objects)]

(***************************************************************************)
(* Documents and the bulk write path                                       *)
(***************************************************************************)
FILTER_SUFFIX == "_filter"

AUTOCOMPLETE_SUFFIX == "_ngrams"

\* string concatenation a + b, tabulated for the names that occur in the models here
Joined(a, b) ==
    CASE a = "tag" /\ b = "_filter" -> "tag_filter"
      [] a = "bio" /\ b = "_filter" -> "bio_filter"
      [] a = "intro" /\ b = "_ngrams" -> "intro_ngrams"
      [] a = "author__" /\ b = "name" -> "author__name"
      [] a = "author__" /\ b = "bio_filter" -> "author__bio_filter"
      [] a = "author" /\ b = "__" -> "author__"

\* utils.get_field_mapping
get_field_mapping(field) ==
    IF field.kind = "filter" THEN Joined(field.name, FILTER_SUFFIX)
    ELSE IF field.kind = "autocomplete" THEN Joined(field.name, AUTOCOMPLETE_SUFFIX)
    ELSE field.name

\* the names of the plain fields of item whose get_value raises
Broken(item) == IF "broken" \in DOMAIN item THEN item.broken ELSE {}

\* utils.prepare_value on a string: a falsy value gives "", a string itself
prepare_value(value) == IF value = "" THEN "" ELSE value

\* ", ".join over at most two strings
Join(values) ==
    IF Len(values) = 1 THEN values[1]
    ELSE IF values[1] = "t" /\ values[2] = "t" THEN "t, t"
    ELSE IF values[1] = "" /\ values[2] = "" THEN ", "
    ELSE IF values[1] = "" THEN ", t" ELSE "t, "

\* utils.prepare_value on a list of strings: "" for the empty list, else the
\* ", "-join of the prepared items
prepare_list(values) ==
    IF Len(values) = 0 THEN ""
    ELSE Join([i \in 1..Len(values) |-> prepare_value(values[i])])

\* a SearchField, FilterField or AutocompleteField: the entry it adds, none when
\* get_value raises inside the suppress block
PlainEntries(field, item) ==
    IF field.name \in Broken(item) THEN <<>>
    ELSE <<[key |-> get_field_mapping(field), value |-> prepare_value(item[field.name])]>>

\* the entries of the sub-fields of a RelatedFields group from index i on.  value is
\* what field.get_value(item) returned: kind says whether it is a manager, a model
\* instance or anything else, rows the values of the related rows, broken the
\* sub-fields whose extraction raises inside the suppress block
RECURSIVE SubEntriesFrom(_, _, _)
SubEntriesFrom(field, value, i) ==
    IF i > Len(field.fields) THEN <<>>
    ELSE LET sub == field.fields[i]
             key == Joined(Joined(field.name, "__"), get_field_mapping(sub))
             one == IF sub.name \in value.broken THEN <<>>
                    ELSE IF value.kind = "manager"
                    THEN <<[key |-> key, value |-> prepare_list(value.rows)]>>
                    ELSE <<[key |-> key, value |-> prepare_value(value.rows[1])]>>
         IN  one \o SubEntriesFrom(field, value, i + 1)

\* whether the walk over this field leaves get_document_fields by an exception:
\* field.get_value(item) of a RelatedFields group, and values_list on a manager for
\* a sub-field name it does not know, are outside every suppress block
FieldRaises(field, item) ==
    /\ field.kind = "related"
    /\ \/ item[field.name].kind = "raises"
       \/ /\ item[field.name].kind = "manager"
          /\ \E i \in 1..Len(field.fields) : field.fields[i].name \in item[field.name].unknown

RelatedEntries(field, item) ==
    IF item[field.name].kind \in {"manager", "model"}
    THEN SubEntriesFrom(field, item[field.name], 1)
    ELSE <<>>

RECURSIVE FieldEntriesFrom(_, _, _)
FieldEntriesFrom(fields, item, i) ==
    IF i > Len(fields) THEN <<>>
    ELSE (IF fields[i].kind = "related" THEN RelatedEntries(fields[i], item)
          ELSE PlainEntries(fields[i], item))
         \o FieldEntriesFrom(fields, item, i + 1)

\* whether get_document_fields(model, item) raises
DocRaises(model, item) ==
    \E i \in 1..Len(model.search_fields) : FieldRaises(model.search_fields[i], item)

\* utils.get_document_fields when it returns: the dictionary the walk over the
\* model's search fields builds, a later entry replacing an earlier one of its key
get_document_fields(model, item) ==
    LET es == FieldEntriesFrom(model.search_fields, item, 1)
        last(k) == CHOOSE i \in 1..Len(es) :
                      /\ es[i].key = k
                      /\ \A j \in (i + 1)..Len(es) : es[j].key # k
    IN  [k \in {es[i].key : i \in 1..Len(es)} |-> es[last(k)].value]

\* MeiliSearchModelIndex._create_document: the fields, then id set last
create_document(model, item) ==
    LET doc_fields == get_document_fields(model, item)
    IN  [k \in DOMAIN doc_fields \cup {"id"} |->
            IF k = "id" THEN item.id ELSE doc_fields[k]]

Min(a, b) == IF a < b THEN a ELSE b

\* one call to the remote engine: its name, the documents (or the one argument) it
\* carries, and whether the engine accepted it
Call(name, docs, ok) == [call |-> name, docs |-> docs, ok |-> ok]

WriteCalls == {"add_documents", "update_documents"}

\* the slices cut one short, items[x : x + 99]: every hundredth record is dropped
ChunksCutShort(items) ==
    [c \in 1..((Len(items) + ChunkSize - 1) \div ChunkSize) |->
        SubSeq(items, (c - 1) * ChunkSize + 1, Min(c * ChunkSize - 1, Len(items)))]

\* chunks = [items[x : x + 100] for x in range(0, len(items), 100)]
Chunks(items) ==
    [c \in 1..((Len(items) + ChunkSize - 1) \div ChunkSize) |->
        SubSeq(items, (c - 1) * ChunkSize + 1, Min(c * ChunkSize, Len(items)))]

\* the write add_items picks for a strategy
BulkWriteCall(strategy) ==
    IF strategy \in {"soft", "delta"} THEN "update_documents" ELSE "add_documents"

\* the body of the loop over chunks: the remote write it attempts (none for an
\* empty prepared list); ok is the outcome the remote engine gives that write
ChunkKept(h, now, chunk) ==
    IF h.update_strategy = "delta"
    THEN check_deltas(h.model, h.update_delta, now, chunk)
    ELSE chunk

\* whether building prepared, outside the suppress block, raises for this chunk
ChunkRaises(h, now, chunk) ==
    \E i \in 1..Len(ChunkKept(h, now, chunk)) :
        DocRaises(h.model, ChunkKept(h, now, chunk)[i])

ChunkCalls(h, now, chunk, ok) ==
    LET kept == ChunkKept(h, now, chunk)
        prepared == [i \in 1..Len(kept) |-> create_document(h.model, kept[i])]
    IN  IF Len(prepared) = 0 THEN <<>>
        ELSE <<Call(BulkWriteCall(h.update_strategy), prepared, ok)>>

\* a write outside any guard: an exception leaves the loop
WriteUnguarded(calls) == \A i \in 1..Len(calls) : calls[i].ok

\* `with contextlib.suppress(Exception)` around the write: the loop goes on
WriteSuppressed(calls) == TRUE

RECURSIVE AddChunksFrom(_, _, _, _, _)
AddChunksFrom(h, now, chunks, fails, c) ==
    IF c > Len(chunks) THEN <<>>
    ELSE IF ChunkRaises(h, now, chunks[c]) THEN <<>>
    ELSE LET calls == ChunkCalls(h, now, chunks[c], c \notin fails)
         IN  IF WriteSuppressed(calls)
             THEN calls \o AddChunksFrom(h, now, chunks, fails, c + 1)
             ELSE calls

\* MeiliSearchModelIndex.add_items: the remote calls it attempts, in order, when the
\* writes of the chunks numbered in fails fail
add_items(h, now, items, fails) == AddChunksFrom(h, now, Chunks(items), fails, 1)

\* whether add_items leaves by an exception: only building a document can do that
add_items_raises(h, now, items) ==
    \E c \in 1..Len(Chunks(items)) : ChunkRaises(h, now, Chunks(items)[c])

\* all documents of a call list, in call order
RECURSIVE CallDocs(_)
CallDocs(calls) ==
    IF Len(calls) = 0 THEN <<>> ELSE Head(calls).docs \o CallDocs(Tail(calls))

(***************************************************************************)
(* add_items on its own: a handle of some strategy, a batch of n records   *)
(* whose first chunk alternates two kinds and whose rest is of a third.    *)
(***************************************************************************)
OldAttrs == Attr1("updated_at", DateTime(1))
RecentAttrs == Attr1("updated_at", DateTime(MaxTime))
TwiceRecentAttrs == Attr2("created_at", DateTime(MaxTime), "updated_at", DateTime(MaxTime))

BulkKinds == {OldAttrs, TwiceRecentAttrs}

BatchItems(b) ==
    [i \in 1..b.n |->
        Record(i, IF i > ChunkSize THEN b.rest ELSE IF i % 2 = 1 THEN b.odd ELSE b.even)]

\* the identity of the n-th handle object made for a model (0: unpickled from the cache)
Oid(model, n) == [label |-> get_index_label(model), n |-> n]

\* MeiliSearchModelIndex.__init__: the attributes of a handle.  oid tells one
\* object from another; index is whether self.index holds an Index object
Handle(oid, model, strategy, update_delta) ==
    [oid |-> oid, model |-> model, update_strategy |-> strategy,
     update_delta |-> update_delta, index |-> TRUE]

\* MeiliSettings.__init__: update_delta is set under the delta strategy only
BulkHandles ==
    {Handle(Oid(PageModel, 1), PageModel, s, NoDelta) : s \in {"hard", "soft"}}
    \cup {Handle(Oid(PageModel, 1), PageModel, "delta", d) :
             d \in {NoDelta, Window(0 - MaxShift)}}
    \cup {Handle(Oid(PlainModel, 1), PlainModel, "delta", Window(0 - MaxShift))}

BulkIdle == [phase |-> "idle"]

BulkCalls ==
    {[phase |-> "called", h |-> h, now |-> MaxTime, n |-> n,
      odd |-> k1, even |-> k2, rest |-> k3, fails |-> {}, calls |-> <<>>] :
     h \in BulkHandles, n \in 0..MaxBatch,
     k1 \in BulkKinds, k2 \in BulkKinds, k3 \in BulkKinds}

BulkAddItems ==
    /\ bulk.phase = "called"
    /\ \E fails \in SUBSET (1..Len(Chunks(BatchItems(bulk)))) :
          bulk' = [bulk EXCEPT !.phase = "returned", !.fails = fails,
                               !.calls = add_items(bulk.h, bulk.now, BatchItems(bulk), fails)]

(***************************************************************************)
(* The remote engine, one index per label                                  *)
(***************************************************************************)
NoIndex == [exists |-> FALSE, docs |-> {}]

EmptyIndex == [exists |-> TRUE, docs |-> {}]

\* add-or-replace by primary key
Upsert(docs, new) ==
    {d \in docs : \A i \in 1..Len(new) : new[i].id # d.id} \cup {new[i] : i \in 1..Len(new)}

\* what one call does to the index it is sent to; a write creates a missing index
Effect(rem, c) ==
    IF ~c.ok THEN rem
    ELSE IF c.call \in WriteCalls THEN [exists |-> TRUE, docs |-> Upsert(rem.docs, c.docs)]
    ELSE IF c.call = "delete_all_documents" THEN [rem EXCEPT !.docs = {}]
    ELSE IF c.call = "delete_document"
         THEN [rem EXCEPT !.docs = {d \in rem.docs : d.id # c.docs[1]}]
    ELSE IF c.call = "delete" THEN NoIndex
    ELSE IF c.call = "create" THEN EmptyIndex
    ELSE rem

RECURSIVE Effects(_, _)
Effects(rem, calls) ==
    IF Len(calls) = 0 THEN rem ELSE Effects(Effect(rem, Head(calls)), Tail(calls))

CallNames(calls) == [i \in 1..Len(calls) |-> calls[i].call]

(***************************************************************************)
(* MeiliSearchModelIndex                                                   *)
(***************************************************************************)
NoHandle == [oid |-> "none"]

\* _set_index: the calls it makes for a handle whose index attribute is has_index.
\* missing says that client.index(label) raised HTTPError
set_index(has_index, label, missing) ==
    IF has_index THEN <<>>
    ELSE IF missing THEN <<Call("create", <<label>>, TRUE)>>
    ELSE <<>>

\* _rebuild: self.index.delete(), then self._set_index(self.model).  deleted is
\* whether the engine accepted the delete; when it did not, _rebuild raises
rebuild(h, deleted, missing) ==
    <<Call("delete", <<h.oid.label>>, deleted)>>
    \o (IF deleted THEN set_index(h.index, h.oid.label, missing) ELSE <<>>)

\* add_item with the delta filter as a gate: nothing is written for a filtered item
AddItemGated(h, now, item) ==
    IF h.update_strategy = "delta"
    THEN check_deltas(h.model, h.update_delta, now, <<item>>)
    ELSE <<item>>

\* add_item, lines 315-318: the items it goes on to write
AddItemKept(h, now, item) ==
    LET checked == IF h.update_strategy = "delta"
                   THEN check_deltas(h.model, h.update_delta, now, <<item>>)
                   ELSE <<>>
    IN  IF Len(checked) > 0 THEN <<checked[1]>> ELSE <<item>>

\* MeiliSearchModelIndex.add_item: the remote calls it makes
add_item(h, now, item, ok) ==
    LET kept == AddItemKept(h, now, item)
        built == IF \E i \in 1..Len(kept) : DocRaises(h.model, kept[i]) THEN <<>> ELSE kept
    IN  [i \in 1..Len(built) |->
            Call(IF h.update_strategy = "soft" THEN "update_documents" ELSE "add_documents",
                 <<create_document(h.model, built[i])>>, ok)]

\* whether add_item leaves by an exception: _create_document and the write are
\* both outside any guard
add_item_raises(h, now, item, ok) ==
    \/ \E i \in 1..Len(AddItemKept(h, now, item)) : DocRaises(h.model, AddItemKept(h, now, item)[i])
    \/ ~ok

\* MeiliSearchModelIndex.delete_item
delete_item(h, obj, ok) == <<Call("delete_document", <<obj.id>>, ok)>>

\* MeiliSearchModelIndex.delete_all_documents
delete_all_documents(h, ok) == <<Call("delete_all_documents", <<>>, ok)>>

(***************************************************************************)
(* MeiliSettings.apply_settings: the five pushes, in order                 *)
(***************************************************************************)
\* _ordered_fields: the searchable attributes (boost order is not kept here)
ordered_fields(model) ==
    SelectSeq(model.search_fields, LAMBDA f : f.kind \in {"search", "autocomplete"})

\* the remote call of each _apply_* method, in the order apply_settings runs them;
\* _apply_searchable_attributes returns early for a model without searchable fields
SettingsPushes(model) ==
    <<[call |-> "update_settings", arg |-> "pagination"]>>
    \o (IF Len(ordered_fields(model)) = 0 THEN <<>>
        ELSE <<[call |-> "update_settings", arg |-> "searchableAttributes"]>>)
    \o <<[call |-> "update_filterable_attributes", arg |-> "content_type_id_filter"],
         [call |-> "update_settings", arg |-> "rankingRules"],
         [call |-> "update_settings", arg |-> "stopWords"]>>

\* a push outside any try: its exception leaves apply_settings
SettingUnguarded(c) == c.ok

\* `try: ... except Exception as err: sys.stdout.write(...)` around each push
SettingGuarded(c) == TRUE

RECURSIVE PushFrom(_, _, _)
PushFrom(pushes, fails, i) ==
    IF i > Len(pushes) THEN <<>>
    ELSE LET c == Call(pushes[i].call, <<pushes[i].arg>>, i \notin fails)
         IN  IF SettingGuarded(c) THEN <<c>> \o PushFrom(pushes, fails, i + 1) ELSE <<c>>

\* MeiliSettings.apply_settings: the remote calls it attempts when the pushes
\* numbered in fails are refused
apply_settings(h, fails) == PushFrom(SettingsPushes(h.model), fails, 1)

\* whether apply_settings left by an exception
SettingsRaised(calls) == \E i \in 1..Len(calls) : ~SettingGuarded(calls[i])

\* a model that declares a filter field only: nothing searchable
TagModel == [label |-> <<"a", ".", "T">>, fields |-> {"id", "tag"},
             search_fields |-> <<[kind |-> "filter", name |-> "tag"]>>]

\* apply_settings on its own: a handle and the pushes the engine refuses
SettingsCalls ==
    {[phase |-> "called", fn |-> "apply_settings",
      h |-> Handle(Oid(m, 1), m, s, NoDelta), fails |-> f, calls |-> <<>>, raised |-> FALSE] :
     m \in Models \cup {TagModel}, s \in {"hard", "soft"}, f \in SUBSET (1..5)}

ApplySettings ==
    /\ req.phase = "called"
    /\ req.fn = "apply_settings"
    /\ LET calls == apply_settings(req.h, req.fails)
       IN  req' = [req EXCEPT !.phase = "returned", !.calls = calls,
                              !.raised = SettingsRaised(calls)]

(***************************************************************************)
(* Search responses and their ranking (utils.ranked_ids_from_search_results)*)
(*                                                                         *)
(* A hit is a dict: keys says which of "id" and "_rankingScore" it has,    *)
(* matches is its _matchesPosition as field -> length of the serialized    *)
(* position data.  Scores are whole numbers.                               *)
(***************************************************************************)
NoMatches == [f \in {} |-> 0]

Hit(id, score) ==
    [keys |-> {"id", "_rankingScore"}, id |-> id, score |-> score, matches |-> NoMatches]

\* a hit the engine sent without a ranking score, with match positions in one field
UnscoredHit(id, field, len) ==
    [keys |-> {"id"}, id |-> id, score |-> 0, matches |-> [f \in {field} |-> len]]

\* a hit without a primary key
KeylessHit == [keys |-> {"_rankingScore"}, id |-> 0, score |-> 1, matches |-> NoMatches]

\* (hit["id"], hit.get("_rankingScore", 0.0)) for hit in hits if "id" in hit
hit_pairs(hits) ==
    LET keyed == SelectSeq(hits, LAMBDA h : "id" \in h.keys)
    IN  [i \in 1..Len(keyed) |->
            [id |-> keyed[i].id,
             score |-> IF "_rankingScore" \in keyed[i].keys THEN keyed[i].score ELSE 0]]

\* sorted(..., key=score, reverse=True) is stable: x goes after the items that
\* score at least as much
InsertByScore(sorted, x) ==
    LET k == Cardinality({i \in 1..Len(sorted) : sorted[i].score >= x.score})
    IN  SubSeq(sorted, 1, k) \o <<x>> \o SubSeq(sorted, k + 1, Len(sorted))

RECURSIVE SortedByScore(_)
SortedByScore(items) ==
    IF Len(items) = 0 THEN <<>>
    ELSE InsertByScore(SortedByScore(SubSeq(items, 1, Len(items) - 1)), items[Len(items)])

\* the loop over results["results"]: the pairs of every index result that has hits
RECURSIVE ResultPairs(_)
ResultPairs(index_results) ==
    IF Len(index_results) = 0 THEN <<>>
    ELSE (IF Head(index_results).has_hits THEN hit_pairs(Head(index_results).hits) ELSE <<>>)
         \o ResultPairs(Tail(index_results))

\* utils.ranked_ids_from_search_results.  A response is a dict: keys says which of
\* "hits" and "results" it has
ranked_ids_from_search_results(results) ==
    IF "hits" \in results.keys THEN hit_pairs(results.hits)
    ELSE SortedByScore(IF "results" \in results.keys
                       THEN ResultPairs(results.results) ELSE <<>>)

\* the response of client.multi_search: one index result per query
MultiResponse(index_results) == [keys |-> {"results"}, hits |-> <<>>, results |-> index_results]

\* the response of one index's search
SingleResponse(hits) == [keys |-> {"hits"}, hits |-> hits, results |-> <<>>]

IndexResult(uid, hits) == [indexUid |-> uid, has_hits |-> TRUE, hits |-> hits]

\* the hits a response is made of
RankHits ==
    {Hit(1, 1), Hit(2, 3), Hit(1, 2), KeylessHit,
     UnscoredHit(3, "title", 40), UnscoredHit(4, "body", 386)}

HitLists(n) == UNION {[1..len -> RankHits] : len \in 0..n}

\* ranked_ids_from_search_results on its own: the responses it is given
RankCalls ==
    {[phase |-> "called", fn |-> "ranked_ids", results |-> r, out |-> <<>>] :
     r \in {SingleResponse(hs) : hs \in HitLists(MaxHits)}
           \cup {MultiResponse(<<IndexResult("a-P", hs)>>) : hs \in HitLists(MaxHits)}
           \cup {MultiResponse(<<IndexResult("a-P", h1), IndexResult("a-C", h2)>>) :
                    h1 \in HitLists(MaxHits), h2 \in HitLists(MaxHits)}
           \cup {[keys |-> {}, hits |-> <<>>, results |-> <<>>],
                 MultiResponse(<<[indexUid |-> "a-P", has_hits |-> FALSE, hits |-> <<>>],
                                 IndexResult("a-C", <<Hit(1, 1), Hit(2, 3)>>)>>)}}

RankedIds ==
    /\ req.phase = "called"
    /\ req.fn = "ranked_ids"
    /\ req' = [req EXCEPT !.phase = "returned",
                          !.out = ranked_ids_from_search_results(req.results)]

(***************************************************************************)
(* MeiliSearchResults: the search side                                     *)
(***************************************************************************)
\* a subtype of PageModel (multi-table inheritance: a child row shares its page's pk)
ChildModel == [label |-> <<"a", ".", "C">>, fields |-> {"id", "title", "updated_at"},
               search_fields |-> <<TitleField>>]

\* apps.get_models()
AppModels == <<PageModel, ChildModel, PlainModel>>

issubclass(a, b) == a = b \/ (a = ChildModel /\ b = PageModel)

\* utils.get_descendant_models
get_descendant_models(model) == SelectSeq(AppModels, LAMBDA o : issubclass(o, model))

\* the index uids the engine can hold, in the order get_indexes lists them
SearchLabels == [i \in 1..Len(AppModels) |-> get_index_label(AppModels[i])]

SearchLabelSet == {SearchLabels[i] : i \in 1..Len(SearchLabels)}

\* a document of an index that matches the query terms: its pk, the ranking score
\* the engine gives it, and the value of its one filterable attribute (cat_filter)
Doc(id, score, cat) == [id |-> id, score |-> score, cat |-> cat]

\* an index of the engine as a search sees it: docs in the engine's rank order,
\* filterable the fields f whose attribute f"{f}_filter" is filterable
NoSearchIndex == [exists |-> FALSE, docs |-> <<>>, filterable |-> {}]

SearchIndex(docs) == [exists |-> TRUE, docs |-> docs, filterable |-> {"cat"}]

\* an item of the list given to filter(): whether it is a tuple, and its length
FilterItem(is_tuple, len, field, value) ==
    [tuple |-> is_tuple, len |-> len, field |-> field, value |-> value]

Pair(field, value) == FilterItem(TRUE, 2, field, value)

\* a filter check that only looks for an empty list
FiltersNonEmpty(filters) == Len(filters) # 0

\* filter(): `if not len(filters)` and the isinstance / len check of each item
FiltersValid(filters) ==
    /\ Len(filters) # 0
    /\ \A i \in 1..Len(filters) : filters[i].tuple /\ filters[i].len = 2

\* a remote call of the search side
SearchCall(name, uids) == [call |-> name, uids |-> uids]

\* _build_queries: the queries, one per active index, and the remote calls made
build_queries(S, models, filters, operator) ==
    LET active == SelectSeq(SearchLabels, LAMBDA l : S.engine[l].exists)
    IN  [queries |->
            [i \in 1..Len(active) |->
                [indexUid |-> active[i],
                 has_filter |-> Len(filters) > 0,
                 filter |-> SelectSeq(filters,
                                      LAMBDA item : item.field \in S.engine[active[i]].filterable),
                 operator |-> operator]],
         log |-> <<SearchCall("get_indexes", <<>>)>>
                 \o [i \in 1..Len(active) |->
                        SearchCall("get_filterable_attributes", <<active[i]>>)]]

\* the engine's reading of q["filter"]: clauses joined by the operator; an empty
\* string filters nothing
ClauseHolds(doc, item) == item.field = "cat" /\ doc.cat = item.value

DocPasses(doc, q) ==
    IF ~q.has_filter \/ Len(q.filter) = 0 THEN TRUE
    ELSE IF q.operator = "AND"
         THEN \A i \in 1..Len(q.filter) : ClauseHolds(doc, q.filter[i])
         ELSE \E i \in 1..Len(q.filter) : ClauseHolds(doc, q.filter[i])

\* client.multi_search(queries): one index result per query, in query order
multi_search(engine, queries) ==
    MultiResponse([i \in 1..Len(queries) |->
        LET docs == SelectSeq(engine[queries[i].indexUid].docs,
                              LAMBDA d : DocPasses(d, queries[i]))
        IN  IndexResult(queries[i].indexUid,
                        [k \in 1..Len(docs) |-> Hit(docs[k].id, docs[k].score)])])

NoStop == 0 - 1

\* a slice that takes one element too many at its end
SliceInclusive(s, start, stop) ==
    LET end == IF stop = NoStop THEN Len(s) ELSE Min(stop + 1, Len(s))
    IN  IF start >= end THEN <<>> ELSE SubSeq(s, start + 1, end)

\* sorted_ids[self.start : self.stop]; stop is None or a number
Slice(s, start, stop) ==
    LET end == IF stop = NoStop THEN Len(s) ELSE Min(stop, Len(s))
    IN  IF start >= end THEN <<>> ELSE SubSeq(s, start + 1, end)

\* {id: score for id, score in sorted_id_score_pairs}: a later pair replaces an
\* earlier one of the same id
id_to_score(pairs, pk) ==
    LET last == CHOOSE i \in 1..Len(pairs) :
                    pairs[i].id = pk /\ \A j \in (i + 1)..Len(pairs) : pairs[j].id # pk
    IN  pairs[last].score

\* _do_search up to the queryset it returns: the remote calls, the ranked pairs,
\* the window, the rows kept (pk__in) and whether they are ordered by search_rank
do_search(S, filters, operator) ==
    LET bq == build_queries(S, get_descendant_models(S.model), filters, operator)
        pairs == ranked_ids_from_search_results(multi_search(S.engine, bq.queries))
        sorted_ids == [i \in 1..Len(pairs) |-> pairs[i].id]
        window == Slice(sorted_ids, S.start, S.stop)
    IN  [log |-> bq.log \o <<SearchCall("multi_search",
                                        [i \in 1..Len(bq.queries) |-> bq.queries[i].indexUid])>>,
         pairs |-> pairs,
         window |-> window,
         rowset |-> S.qs \cap {window[i] : i \in 1..Len(window)},
         ranked |-> S.order_by_relevance /\ Len(sorted_ids) > 0]

\* the orders a queryset can yield its rows in: by descending search_rank when
\* ranked (rows of equal rank in any order), else in the base queryset's order (by pk)
RowOrders(found) ==
    {rows \in [1..Cardinality(found.rowset) -> found.rowset] :
        /\ \A i, j \in DOMAIN rows : i # j => rows[i] # rows[j]
        /\ \A i, j \in DOMAIN rows :
              i < j => IF found.ranked
                       THEN id_to_score(found.pairs, rows[i]) >= id_to_score(found.pairs, rows[j])
                       ELSE rows[i] < rows[j]}

NoCount == 0 - 1

\* the lists filter() is called with
FilterArgs ==
    {<<>>,
     <<Pair("cat", "x")>>,
     <<Pair("cat", "x"), Pair("kind", "y")>>,
     <<FilterItem(FALSE, 2, "cat", "x")>>,
     <<Pair("cat", "x"), FilterItem(TRUE, 3, "cat", "x")>>}

\* the documents an index holds for the query
DocChoices(label) ==
    IF label = get_index_label(PageModel)
    THEN {<<Doc(1, 3, "x")>>, <<Doc(1, 3, "x"), Doc(3, 1, "y")>>}
    ELSE IF label = get_index_label(ChildModel)
    THEN {<<>>, <<Doc(2, 2, "x"), Doc(1, 1, "x")>>}
    ELSE {<<Doc(3, 3, "x")>>, <<Doc(2, 3, "y")>>}

Engines ==
    {e \in [SearchLabelSet -> {NoSearchIndex}
                              \cup UNION {{SearchIndex(d) : d \in DocChoices(l)} :
                                          l \in SearchLabelSet}] :
        \A l \in SearchLabelSet : e[l].exists => e[l].docs \in DocChoices(l)}

\* a results object as backend.search() and slicing leave it: nothing cached
SearchObjects ==
    {[phase |-> "ready", model |-> m, engine |-> e, qs |-> q,
      start |-> a, stop |-> b, order_by_relevance |-> o,
      count_cache |-> NoCount, results_cache |-> [set |-> FALSE, rows |-> <<>>],
      op |-> "init", filters |-> <<>>, operator |-> "AND", raised |-> FALSE,
      log |-> <<>>, rows |-> <<>>, count |-> NoCount] :
     m \in {PageModel, ChildModel}, e \in Engines, q \in {{1, 2, 3}, {2, 3}},
     a \in 0..(MaxStop - 1), b \in {NoStop} \cup 1..MaxStop, o \in BOOLEAN}

\* MeiliSearchResults.filter
SearchFilter ==
    /\ srch.phase = "ready"
    /\ \E filters \in FilterArgs, operator \in {"AND", "OR"} :
          IF ~FiltersValid(filters)
          THEN srch' = [srch EXCEPT !.op = "filter", !.filters = filters,
                                    !.operator = operator, !.raised = TRUE,
                                    !.log = <<>>, !.rows = <<>>, !.count = NoCount]
          ELSE LET found == do_search(srch, filters, operator)
               IN  \E rows \in RowOrders(found) :
                      srch' = [srch EXCEPT !.op = "filter", !.filters = filters,
                                           !.operator = operator, !.raised = FALSE,
                                           !.log = found.log, !.rows = rows,
                                           !.count = NoCount]
    /\ UNCHANGED <<cfg, indexes, cache, remote, made, given, run, lastOp, bulk, dl, req>>

\* MeiliSearchResults._do_search()
SearchDoSearch ==
    /\ srch.phase = "ready"
    /\ LET found == do_search(srch, <<>>, "AND")
       IN  \E rows \in RowOrders(found) :
              srch' = [srch EXCEPT !.op = "_do_search", !.filters = <<>>,
                                   !.operator = "AND", !.raised = FALSE,
                                   !.log = found.log, !.rows = rows, !.count = NoCount]
    /\ UNCHANGED <<cfg, indexes, cache, remote, made, given, run, lastOp, bulk, dl, req>>

\* MeiliSearchResults._do_count()
SearchDoCount ==
    /\ srch.phase = "ready"
    /\ IF srch.count_cache # NoCount /\ srch.count_cache # 0
       THEN srch' = [srch EXCEPT !.op = "_do_count", !.filters = <<>>, !.operator = "AND",
                                 !.raised = FALSE, !.log = <<>>, !.rows = <<>>,
                                 !.count = srch.count_cache]
       ELSE IF srch.results_cache.set /\ Len(srch.results_cache.rows) > 0
       THEN srch' = [srch EXCEPT !.op = "_do_count", !.filters = <<>>, !.operator = "AND",
                                 !.raised = FALSE, !.log = <<>>, !.rows = <<>>,
                                 !.count = Len(srch.results_cache.rows)]
       ELSE LET found == do_search(srch, <<>>, "AND")
            IN  \E rows \in RowOrders(found) :
                   srch' = [srch EXCEPT !.op = "_do_count", !.filters = <<>>,
                                        !.operator = "AND", !.raised = FALSE,
                                        !.log = found.log, !.rows = <<>>,
                                        !.count = Cardinality(found.rowset),
                                        !.count_cache = Cardinality(found.rowset),
                                        !.results_cache = [set |-> TRUE, rows |-> rows]]
    /\ UNCHANGED <<cfg, indexes, cache, remote, made, given, run, lastOp, bulk, dl, req>>

(***************************************************************************)
(* MeiliSearchResults.facet                                                *)
(***************************************************************************)
\* an entry of a facet distribution: a facet value and the count of its hits
Facet(value, count) == [value |-> value, count |-> count]

\* dict.update for one entry of an ordered dict held as a list of entries: the
\* value of a key already present is replaced, a new key goes last
UpdateOne(od, e) ==
    IF \E i \in 1..Len(od) : od[i].value = e.value
    THEN [i \in 1..Len(od) |-> IF od[i].value = e.value THEN e ELSE od[i]]
    ELSE Append(od, e)

\* results.update(res)
RECURSIVE Update(_, _)
Update(od, res) ==
    IF Len(res) = 0 THEN od ELSE Update(UpdateOne(od, Head(res)), Tail(res))

\* sorted(results.items(), key=lambda x: x[1], reverse=True)
InsertByCount(sorted, e) ==
    LET k == Cardinality({i \in 1..Len(sorted) : sorted[i].count >= e.count})
    IN  SubSeq(sorted, 1, k) \o <<e>> \o SubSeq(sorted, k + 1, Len(sorted))

RECURSIVE SortedByCount(_)
SortedByCount(od) ==
    IF Len(od) = 0 THEN <<>>
    ELSE InsertByCount(SortedByCount(SubSeq(od, 1, Len(od) - 1)), od[Len(od)])

\* what facet() learns of one model's index: whether the filter field is among
\* its filterable attributes, and the facetDistribution entry of the search
\* result for that field (has_dist: the key is there)
FacetIndex(filterable, has_dist, dist) ==
    [filterable |-> filterable, has_dist |-> has_dist, dist |-> dist]

\* the loop `for m in models`
RECURSIVE FacetFrom(_, _, _)
FacetFrom(infos, results, i) ==
    IF i > Len(infos) THEN results
    ELSE FacetFrom(infos,
                   IF infos[i].filterable /\ infos[i].has_dist
                   THEN Update(results, infos[i].dist) ELSE results,
                   i + 1)

\* MeiliSearchResults.facet, for a query that has a query string
facet(infos) == SortedByCount(FacetFrom(infos, <<>>, 1))

\* MeiliSearchBackend._init_search_params: the backend's search_params dictionary
init_search_params ==
    [limit |-> "query_limit", attributesToRetrieve |-> "id",
     showMatchesPosition |-> "True", showRankingScore |-> "True"]

\* dict.update(**extras)
DictUpdate(params, extras) ==
    [k \in DOMAIN params \cup DOMAIN extras |->
        IF k \in DOMAIN extras THEN extras[k] ELSE params[k]]

\* MeiliSearchModelIndex.search: params is the backend's dictionary itself, not a
\* copy; what the dictionary holds after the call is also what was sent
index_search(params, extras) ==
    IF DOMAIN extras # {} THEN DictUpdate(params, extras) ELSE params

\* what the loop of facet() leaves in the backend's search_params
RECURSIVE FacetParamsFrom(_, _, _)
FacetParamsFrom(infos, params, i) ==
    IF i > Len(infos) THEN params
    ELSE FacetParamsFrom(infos,
                         IF infos[i].filterable
                         THEN index_search(params, [facets |-> "filter_field"])
                         ELSE params,
                         i + 1)

\* _build_queries: the parameters of each query, {**self.backend.search_params}
query_params(params) == params

FacetDists ==
    {<<>>, <<Facet("58", 100)>>, <<Facet("58", 97), Facet("75", 2)>>, <<Facet("75", 2)>>}

FacetIndexes ==
    {FacetIndex(FALSE, FALSE, <<>>), FacetIndex(TRUE, FALSE, <<>>)}
    \cup {FacetIndex(TRUE, TRUE, d) : d \in FacetDists}

\* facet() on its own: the indexes of the searched model and its subtypes
FacetCalls ==
    {[phase |-> "called", fn |-> "facet", infos |-> x, out |-> <<>>,
      search_params |-> init_search_params, sent |-> [none |-> "none"]] :
     x \in UNION {[1..n -> FacetIndexes] : n \in 1..Len(AppModels)}}

FacetCall ==
    /\ req.phase = "called"
    /\ req.fn = "facet"
    /\ req' = [req EXCEPT !.phase = "returned", !.out = facet(req.infos),
                          !.search_params = FacetParamsFrom(req.infos, @, 1)]
    /\ UNCHANGED <<cfg, indexes, cache, remote, made, given, run, lastOp, bulk, dl, srch>>

\* a search on the same backend after facet(): the parameters its queries carry
FacetThenSearch ==
    /\ req.phase = "returned"
    /\ req.fn = "facet"
    /\ req' = [req EXCEPT !.phase = "searched", !.sent = query_params(req.search_params)]
    /\ UNCHANGED <<cfg, indexes, cache, remote, made, given, run, lastOp, bulk, dl, srch>>

(***************************************************************************)
(* Building one document: a model with every kind of search field          *)
(***************************************************************************)
AuthorFields == <<[kind |-> "search", name |-> "name"], [kind |-> "filter", name |-> "bio"]>>

DocModel == [label |-> <<"a", ".", "D">>,
             fields |-> {"id", "title", "tag", "intro", "author"},
             search_fields |-> <<TitleField,
                                 [kind |-> "filter", name |-> "tag"],
                                 [kind |-> "autocomplete", name |-> "intro"],
                                 [kind |-> "related", name |-> "author",
                                  fields |-> AuthorFields]>>]

\* what RelatedFields.get_value gives for an item: a manager over related rows, one
\* related instance, some other value, or an exception
RelatedValue(kind, rows, broken, unknown) ==
    [kind |-> kind, rows |-> rows, broken |-> broken, unknown |-> unknown]

RelatedValues ==
    {RelatedValue("manager", r, b, u) :
        r \in {<<>>, <<"t">>, <<"t", "t">>}, b \in SUBSET {"name", "bio"},
        u \in SUBSET {"name", "bio"}}
    \cup {RelatedValue("model", <<"t">>, b, {}) : b \in SUBSET {"name", "bio"}}
    \cup {RelatedValue("other", <<>>, {}, {}), RelatedValue("raises", <<>>, {}, {})}

\* an instance of DocModel: broken names the plain fields whose get_value raises
DocItem(title, broken, author) ==
    [id |-> 1, attrs |-> NoAttrs, title |-> title, tag |-> "t", intro |-> "t",
     broken |-> broken, author |-> author]

DocItems ==
    {DocItem(t, b, a) : t \in {"t", ""}, b \in SUBSET {"title", "tag", "intro"},
                        a \in RelatedValues}

\* add_item or add_items on its own, for one item, the engine accepting the write
DocRequests ==
    {[phase |-> "called", fn |-> f, h |-> Handle(Oid(DocModel, 1), DocModel, s, NoDelta),
      item |-> x, calls |-> <<>>, raised |-> FALSE] :
     f \in {"add_item", "add_items"}, s \in {"hard", "soft"}, x \in DocItems}

DocAddItem ==
    /\ req.phase = "called"
    /\ req.fn = "add_item"
    /\ req' = [req EXCEPT !.phase = "returned",
                          !.calls = add_item(req.h, 1, req.item, TRUE),
                          !.raised = add_item_raises(req.h, 1, req.item, TRUE)]
    /\ UNCHANGED <<cfg, indexes, cache, remote, made, given, run, lastOp, bulk, dl, srch>>

DocAddItems ==
    /\ req.phase = "called"
    /\ req.fn = "add_items"
    /\ req' = [req EXCEPT !.phase = "returned",
                          !.calls = add_items(req.h, 1, <<req.item>>, {}),
                          !.raised = add_items_raises(req.h, 1, <<req.item>>)]
    /\ UNCHANGED <<cfg, indexes, cache, remote, made, given, run, lastOp, bulk, dl, srch>>

(***************************************************************************)
(* get_document_fields behind functools.lru_cache                          *)
(***************************************************************************)
\* the cache key of a call: lru_cache hashes and compares its arguments, and a
\* Django model instance hashes by its primary key and equals any instance of the
\* same model with that key, whatever its field values
MemoKey(model, item) == [label |-> get_index_label(model), pk |-> item.id]

MemoHit(memo, model, item) == \E e \in memo : e.key = MemoKey(model, item)

\* @lru_cache(maxsize=None) around get_document_fields: a hit returns the dictionary
\* stored by the first call for the key, a miss runs the body and stores its result;
\* an exception is stored nowhere
cached_document_fields(memo, model, item) ==
    IF MemoHit(memo, model, item)
    THEN [memo |-> memo,
          ret |-> (CHOOSE e \in memo : e.key = MemoKey(model, item)).fields]
    ELSE LET fields == get_document_fields(model, item)
         IN  [memo |-> memo \cup {[key |-> MemoKey(model, item), fields |-> fields]},
              ret |-> fields]

\* _create_document in a process whose cache holds memo: a copy of the dictionary
\* the cached function returns, then id
cached_create_document(memo, model, item) ==
    LET got == cached_document_fields(memo, model, item)
    IN  [memo |-> got.memo,
         ret |-> [k \in DOMAIN got.ret \cup {"id"} |->
                     IF k = "id" THEN item.id ELSE got.ret[k]]]

\* the record with primary key 1 of DocModel, by its current field values
ValuedItem(title, tag, intro) ==
    [DocItem(title, {}, RelatedValue("other", <<>>, {}, {}))
        EXCEPT !.tag = tag, !.intro = intro]

ValuedItems == {ValuedItem(t, g, n) : t, g, n \in {"t", ""}}

NoDoc == [id |-> 0]

\* one process, its cache empty, and one record
MemoStart ==
    {[phase |-> "fresh", item |-> x, memo |-> {}, out |-> NoDoc, prev |-> NoDoc, n |-> 0] :
     x \in ValuedItems}

\* _create_document(model, record)
MemoBuild ==
    /\ req.phase \in {"fresh", "built", "changed"}
    /\ req.n < MaxBuilds
    /\ LET got == cached_create_document(req.memo, DocModel, req.item)
       IN  req' = [req EXCEPT !.phase = "built", !.memo = got.memo, !.out = got.ret,
                              !.prev = IF req.phase = "built" THEN req.out ELSE NoDoc,
                              !.n = @ + 1]
    /\ UNCHANGED <<cfg, indexes, cache, remote, made, given, run, lastOp, bulk, dl, srch>>

\* the application changes a field of the record and keeps its primary key
MemoChange ==
    /\ req.phase \in {"fresh", "built", "changed"}
    /\ \E x \in ValuedItems \ {req.item} :
          req' = [req EXCEPT !.phase = "changed", !.item = x]
    /\ UNCHANGED <<cfg, indexes, cache, remote, made, given, run, lastOp, bulk, dl, srch>>

(***************************************************************************)
(* Round trip: add, search, delete, search                                 *)
(***************************************************************************)
\* add_item in a process whose document cache holds memo: the calls of add_item,
\* their documents built through the cached get_document_fields
add_item_cached(memo, h, now, item, ok) ==
    LET calls == add_item(h, now, item, ok)
        kept == AddItemKept(h, now, item)
    IN  [i \in 1..Len(calls) |->
            [calls[i] EXCEPT !.docs = <<cached_create_document(memo, h.model, kept[i]).ret>>]]

\* the record of the round trip: primary key 1, the only record whose title is "u"
RoundItem(attrs) == [Record(1, attrs) EXCEPT !.title = "u"]

\* the documents of an index that match a one-word query, as the search side sees
\* an index: by primary key, all with the same ranking score
MatchingDocs(docs, term) ==
    LET ids == SelectSeq(<<1, 2>>, LAMBDA i : \E d \in docs : d.id = i /\ d.title = term)
    IN  [k \in 1..Len(ids) |-> Doc(ids[k], 1, "x")]

EngineView(rem, term) ==
    [l \in SearchLabelSet |->
        IF l \in DOMAIN rem /\ rem[l].exists
        THEN SearchIndex(MatchingDocs(rem[l].docs, term))
        ELSE NoSearchIndex]

\* backend.search(term, model): the ids of the hits, in rank order
search_ids(rem, model, term) ==
    do_search([model |-> model, engine |-> EngineView(rem, term), qs |-> {1, 2},
               start |-> 0, stop |-> NoStop, order_by_relevance |-> TRUE],
              <<>>, "AND").window

\* what the index of the record's model holds before the round trip
PriorDocs ==
    {{}, {[id |-> 1, title |-> "t"]}, {[id |-> 2, title |-> "t"]},
     {[id |-> 1, title |-> "t"], [id |-> 2, title |-> "t"]}, {[id |-> 1, title |-> "u"]}}

\* what the process's document cache holds before the round trip: nothing, or the
\* fields of the record as an earlier add in this process saw them
PriorMemos ==
    {{}, cached_create_document({}, PageModel, Record(1, OldAttrs)).memo}

RoundStart ==
    {[phase |-> "start", h |-> h, item |-> RoundItem(a), memo |-> c, hits |-> <<>>] :
     h \in BulkHandles, a \in {OldAttrs, RecentAttrs}, c \in PriorMemos}

\* backend.add(record)
RoundAdd ==
    /\ req.phase = "start"
    /\ \E ok \in BOOLEAN, now \in {1, MaxTime} :
          LET calls == add_item_cached(req.memo, req.h, now, req.item, ok)
              l == req.h.oid.label
          IN  /\ remote' = [remote EXCEPT ![l] = Effects(@, calls)]
              /\ req' = [req EXCEPT
                           !.phase = IF add_item_raises(req.h, now, req.item, ok)
                                     THEN "failed" ELSE "added",
                           !.memo = cached_create_document(req.memo, req.h.model, req.item).memo]
    /\ UNCHANGED <<cfg, indexes, cache, made, given, run, lastOp, bulk, dl, srch>>

\* backend.search("u", model) and the evaluation of its results
RoundSearch ==
    /\ req.phase \in {"added", "deleted"}
    /\ req' = [req EXCEPT !.phase = IF req.phase = "added" THEN "found" ELSE "gone",
                          !.hits = search_ids(remote, req.h.model, "u")]
    /\ UNCHANGED <<cfg, indexes, cache, remote, made, given, run, lastOp, bulk, dl, srch>>

\* backend.delete(record)
RoundDelete ==
    /\ req.phase = "found"
    /\ \E ok \in BOOLEAN :
          /\ remote' = [remote EXCEPT ![req.h.oid.label] = Effects(@, delete_item(req.h, req.item, ok))]
          /\ req' = [req EXCEPT !.phase = IF ok THEN "deleted" ELSE "failed"]
    /\ UNCHANGED <<cfg, indexes, cache, made, given, run, lastOp, bulk, dl, srch>>

(***************************************************************************)
(* Index labels of arbitrary models                                        *)
(***************************************************************************)
\* Python identifiers over a two-character alphabet: what Django accepts as an app
\* label and what a model class can be called
Identifiers == UNION {[1..n -> {"a", "_"}] : n \in 1..MaxName}

\* a model as its _meta.label, app_label "." object_name
NamedModel(app, name) == [label |-> app \o <<".">> \o name]

NamedModels == {NamedModel(app, name) : app, name \in Identifiers}

\* MeiliIndexRegistry._get_label
registry_get_label(model) == Replace(model.label, ".", "-")

\* @lru_cache(maxsize=None) around get_index_label, keyed by the model class
cached_index_label(memo, model) ==
    IF \E e \in memo : e.model = model
    THEN [memo |-> memo, ret |-> (CHOOSE e \in memo : e.model = model).label]
    ELSE [memo |-> memo \cup {[model |-> model, label |-> get_index_label(model)]},
          ret |-> get_index_label(model)]

\* meilisearch_status: `model = k.replace("-", ".")` for the uid k of an index
status_model_name(uid) == Replace(uid, "-", ".")

LabelStart ==
    {[phase |-> "models", a |-> a, b |-> b, memo |-> {}, la |-> <<>>, lb |-> <<>>,
      again |-> <<>>] : a, b \in NamedModels}

\* get_index_label for each of two models
LabelBoth ==
    /\ req.phase = "models"
    /\ LET first == cached_index_label(req.memo, req.a)
           second == cached_index_label(first.memo, req.b)
       IN  req' = [req EXCEPT !.phase = "labelled", !.memo = second.memo,
                              !.la = first.ret, !.lb = second.ret]
    /\ UNCHANGED <<cfg, indexes, cache, remote, made, given, run, lastOp, bulk, dl, srch>>

\* get_index_label once more for the first model
LabelAgain ==
    /\ req.phase = "labelled"
    /\ LET third == cached_index_label(req.memo, req.a)
       IN  req' = [req EXCEPT !.phase = "relabelled", !.memo = third.memo,
                              !.again = third.ret]
    /\ UNCHANGED <<cfg, indexes, cache, remote, made, given, run, lastOp, bulk, dl, srch>>

(***************************************************************************)
(* MeiliIndexRegistry                                                      *)
(***************************************************************************)
\* a registry lookup that never finds the label
RegisteredNever(reg, label) == FALSE

\* `if label in self.indexes`
Registered(reg, label) == reg[label] # NoHandle

\* The part of the state get_index_for_model reads and writes, with its result
Here == [indexes |-> indexes, cache |-> cache, remote |-> remote, made |-> made,
         given |-> given, ret |-> NoHandle]

\* MeiliIndexRegistry.get_index_for_model on the registry of the backend whose
\* settings are c.  indexes is an attribute of the class: every registry of the
\* process reads and writes the same dictionary, as every process does the cache
get_index_for_backend(S, c, model, missing) ==
    LET label == get_index_label(model)
        cached == S.cache[label]
        fresh == Handle(Oid(model, S.made[label] + 1), model,
                        c.update_strategy, c.update_delta)
        index == IF cached = NoHandle THEN fresh ELSE cached
    IN  IF Registered(S.indexes, label)
        THEN [S EXCEPT !.ret = S.indexes[label],
                       !.given[label] = @ \cup {S.indexes[label].oid}]
        ELSE [indexes |-> [S.indexes EXCEPT ![label] = index],
              cache |-> IF cached = NoHandle
                        THEN [S.cache EXCEPT ![label] = index] ELSE S.cache,
              remote |-> IF cached = NoHandle
                         THEN [S.remote EXCEPT
                                 ![label] = Effects(@, set_index(FALSE, label,
                                                                 missing /\ ~@.exists))]
                         ELSE S.remote,
              made |-> IF cached = NoHandle
                       THEN [S.made EXCEPT ![label] = @ + 1] ELSE S.made,
              given |-> [S.given EXCEPT ![label] = @ \cup {index.oid}],
              ret |-> index]

\* MeiliIndexRegistry.get_index_for_model (and the backend method that forwards to it)
get_index_for_model(S, model, missing) == get_index_for_backend(S, cfg, model, missing)

(***************************************************************************)
(* MeiliSearchRebuilder                                                    *)
(***************************************************************************)
DummyIndex == [oid |-> "dummy"]

\* the skip list looked up by the index label ("a-P") instead of the model label
SkippedByIndexLabel(model, skip_models) == get_index_label(model) \in skip_models

\* `model._meta.label in self.index.backend.skip_models`
Skipped(model, skip_models) == model.label \in skip_models

\* a strategy test that never takes the hard branch
ClearsNever(strategy) == FALSE

\* a strategy test that forgets delta
ClearsUnlessSoft(strategy) == strategy # "soft"

\* the else branch of `if strategy == "soft" or strategy == "delta"`
ClearsFirst(strategy) == ~(strategy = "soft" \/ strategy = "delta")

\* the calls that touch documents or the index itself
DocCalls == WriteCalls \cup {"delete_all_documents", "delete_document", "delete"}

DocCallNames(calls) == SelectSeq(CallNames(calls), LAMBDA n : n \in DocCalls)

Idle == [phase |-> "idle"]

NoItem == Record(0, NoAttrs)

\* what is kept of an operation: its name, the label it was for, the remote calls it
\* made, what it returned, whether it raised, and the record or batch size it was given
Op(name, label, calls, ret, raised, item) ==
    [op |-> name, label |-> label, calls |-> calls, ret |-> ret, raised |-> raised,
     item |-> item, n |-> 0, now |-> 0]

\* the records the backend is given, and the batches of them
RunKinds == {OldAttrs, RecentAttrs}

RunItems == {Record(i, k) : i \in 1..MaxId, k \in RunKinds}

RunBatches ==
    UNION {{[i \in 1..len |-> Record(i, ks[i])] : ks \in [1..len -> RunKinds]} :
           len \in 0..MaxId}

\* whether client.index(label) raises HTTPError is open only when a handle is about
\* to be constructed for an index the engine does not have
MissingChoices(m) ==
    IF ~Registered(indexes, get_index_label(m)) /\ cache[get_index_label(m)] = NoHandle
       /\ ~remote[get_index_label(m)].exists
    THEN BOOLEAN ELSE {FALSE}

\* arrow.now() while the backend runs: late enough that a window reaching back
\* MaxShift tells an old record from a recent one
ClockChoices == {MaxTime}

\* MeiliSearchBackend.get_index_for_model
GetIndexForModel(m) ==
    \E missing \in MissingChoices(m) :
        LET S == get_index_for_model(Here, m, missing)
        IN  /\ indexes' = S.indexes
            /\ cache' = S.cache
            /\ remote' = S.remote
            /\ made' = S.made
            /\ given' = S.given
            /\ lastOp' = Op("get_index_for_model", get_index_label(m), <<>>, S.ret,
                            FALSE, NoItem)
            /\ UNCHANGED <<cfg, run, bulk, dl, req, srch>>

\* the shared cache drops an entry
CacheEvict(l) ==
    /\ cache[l] # NoHandle
    /\ cache' = [cache EXCEPT ![l] = NoHandle]
    /\ lastOp' = Op("evict", l, <<>>, NoHandle, FALSE, NoItem)
    /\ UNCHANGED <<cfg, indexes, remote, made, given, run, bulk, dl, req, srch>>

\* a start() that pushes the settings before it clears the documents
start_calls_settings_first(strategy, old_index, index, ok, fails) ==
    (IF ok THEN apply_settings(index, fails) ELSE <<>>)
    \o (IF ClearsFirst(strategy) THEN delete_all_documents(old_index, ok) ELSE <<>>)

\* MeiliSearchRebuilder.start past the skip test: the remote calls it attempts.
\* old_index and index are what the two get_index_for_model calls returned, ok
\* whether the engine accepted the clear, fails the settings pushes it refuses
start_calls(strategy, old_index, index, ok, fails) ==
    (IF ClearsFirst(strategy) THEN delete_all_documents(old_index, ok) ELSE <<>>)
    \o (IF ok THEN apply_settings(index, fails) ELSE <<>>)

\* start() on its own, on a rebuilder over a registered handle
StartRequests ==
    {[phase |-> "called", fn |-> "start", h |-> Handle(Oid(m, 1), m, s, NoDelta),
      skip_models |-> IF k THEN {m.label} ELSE {}, calls |-> <<>>, ret |-> NoHandle,
      raised |-> FALSE] :
     m \in Models \cup {TagModel}, s \in {"hard", "soft", "delta"}, k \in BOOLEAN}

StartCall ==
    /\ req.phase = "called"
    /\ req.fn = "start"
    /\ IF Skipped(req.h.model, req.skip_models)
       THEN req' = [req EXCEPT !.phase = "returned", !.ret = DummyIndex]
       ELSE \E ok \in BOOLEAN, fails \in SUBSET (1..Len(SettingsPushes(req.h.model))) :
               /\ ok \/ (ClearsFirst(req.h.update_strategy) /\ fails = {})
               /\ req' = [req EXCEPT
                            !.phase = "returned",
                            !.calls = start_calls(req.h.update_strategy, req.h, req.h, ok, fails),
                            !.ret = IF ok THEN req.h ELSE NoHandle,
                            !.raised = ~ok]
    /\ UNCHANGED <<cfg, indexes, cache, remote, made, given, run, lastOp, bulk, dl, srch>>

\* MeiliSearchRebuilder.start, on the rebuilder made over the model's handle.  The
\* engine takes every settings push of the run or refuses them all
RebuilderStart(m) ==
    LET label == get_index_label(m)
        h == indexes[label]
    IN  /\ run.phase = "idle"
        /\ Registered(indexes, label)
        /\ IF Skipped(h.model, cfg.skip_models)
           THEN /\ run' = [phase |-> "started", label |-> label, target |-> DummyIndex,
                           log |-> <<>>]
                /\ lastOp' = Op("start", label, <<>>, DummyIndex, FALSE, NoItem)
                /\ UNCHANGED <<indexes, cache, remote, made, given>>
           ELSE \E ok \in (IF ClearsFirst(cfg.update_strategy) THEN BOOLEAN ELSE {TRUE}),
                   fails \in {{}, 1..Len(SettingsPushes(h.model))} :
                  LET S1 == get_index_for_model(Here, h.model, FALSE)
                      S2 == get_index_for_model(S1, h.model, FALSE)
                      pushed == IF ok THEN apply_settings(S2.ret, fails) ELSE <<>>
                      calls == start_calls(cfg.update_strategy, S1.ret, S2.ret, ok, fails)
                      done == ok /\ ~SettingsRaised(pushed)
                  IN  /\ ok \/ fails = {}
                      /\ indexes' = S2.indexes
                      /\ cache' = S2.cache
                      /\ made' = S2.made
                      /\ given' = S2.given
                      /\ remote' = [S2.remote EXCEPT ![label] = Effects(@, calls)]
                      /\ run' = IF done
                                THEN [phase |-> "started", label |-> label,
                                      target |-> S2.ret, log |-> DocCallNames(calls)]
                                ELSE run
                      /\ lastOp' = Op("start", label, calls,
                                      IF done THEN S2.ret ELSE NoHandle, ~done, NoItem)
        /\ UNCHANGED <<cfg, bulk, dl, req, srch>>

\* add_model on the object start() returned: a no-op on either class
RunAddModel ==
    /\ run.phase = "started"
    /\ lastOp' = Op("add_model", run.label, <<>>, NoHandle, FALSE, NoItem)
    /\ UNCHANGED <<cfg, indexes, cache, remote, made, given, run, bulk, dl, req, srch>>

\* add_items on the object start() returned
RunAddItems ==
    /\ run.phase = "started"
    /\ Len(run.log) < MaxRunLog
    /\ \E items \in RunBatches, now \in ClockChoices, fails \in SUBSET {1} :
          LET calls == IF run.target = DummyIndex THEN <<>>
                       ELSE add_items(run.target, now, items, fails)
          IN  /\ remote' = [remote EXCEPT ![run.label] = Effects(@, calls)]
              /\ run' = [run EXCEPT !.log = @ \o DocCallNames(calls)]
              /\ lastOp' = [Op("add_items", run.label, calls, NoHandle,
                                 run.target # DummyIndex
                                 /\ add_items_raises(run.target, now, items), NoItem)
                              EXCEPT !.n = Len(items)]
    /\ UNCHANGED <<cfg, indexes, cache, made, given, bulk, dl, req, srch>>

\* MeiliSearchRebuilder.finish
RebuilderFinish ==
    /\ run.phase = "started"
    /\ run' = Idle
    /\ lastOp' = Op("finish", run.label, <<>>, NoHandle, FALSE, NoItem)
    /\ UNCHANGED <<cfg, indexes, cache, remote, made, given, bulk, dl, req, srch>>

\* MeiliSearchBackend.add: get_index_for_model(type(obj)).add_item(obj)
BackendAdd(m) ==
    \E item \in RunItems, now \in ClockChoices, ok \in BOOLEAN, missing \in MissingChoices(m) :
        LET S == get_index_for_model(Here, m, missing)
            label == get_index_label(m)
            calls == add_item(S.ret, now, item, ok)
        IN  /\ indexes' = S.indexes
            /\ cache' = S.cache
            /\ made' = S.made
            /\ given' = S.given
            /\ remote' = [S.remote EXCEPT ![label] = Effects(@, calls)]
            /\ lastOp' = [Op("add_item", label, calls, NoHandle,
                               add_item_raises(S.ret, now, item, ok), item)
                            EXCEPT !.now = now]
            /\ UNCHANGED <<cfg, run, bulk, dl, req, srch>>

\* MeiliSearchBackend.add_bulk: get_index_for_model(model).add_items(model, obj_list)
BackendAddBulk(m) ==
    \E items \in RunBatches, now \in ClockChoices, fails \in SUBSET {1},
       missing \in MissingChoices(m) :
        LET S == get_index_for_model(Here, m, missing)
            label == get_index_label(m)
            calls == add_items(S.ret, now, items, fails)
        IN  /\ indexes' = S.indexes
            /\ cache' = S.cache
            /\ made' = S.made
            /\ given' = S.given
            /\ remote' = [S.remote EXCEPT ![label] = Effects(@, calls)]
            /\ lastOp' = [Op("add_bulk", label, calls, NoHandle,
                             add_items_raises(S.ret, now, items), NoItem)
                            EXCEPT !.now = now, !.n = Len(items)]
            /\ UNCHANGED <<cfg, run, bulk, dl, req, srch>>

\* add_bulk in one thread and delete in another, on the handle of one model: the
\* records of the batch have the primary keys 1..n, victim is the one deleted
RaceChoices ==
    {[phase |-> "racing", h |-> h, items |-> [i \in 1..n |-> Record(i, a)], victim |-> v,
      next |-> 1, deleted |-> FALSE] :
     h \in BulkHandles, n \in {1, 2, ChunkSize + 1}, a \in {OldAttrs, RecentAttrs},
     v \in {1, ChunkSize + 1}}

\* the victim is in the batch; batches of more than one chunk go to the handles
\* that do not filter by delta
RaceStart ==
    {r \in RaceChoices :
        /\ r.victim <= Len(r.items)
        /\ r.h.update_strategy = "delta" => Len(r.items) <= 2}

\* one turn of the loop of add_items: the chunk's delta filter, its documents and
\* its write
RaceWriteChunk ==
    /\ req.phase = "racing"
    /\ req.next <= Len(Chunks(req.items))
    /\ \E ok \in BOOLEAN :
          remote' = [remote EXCEPT ![req.h.oid.label] =
                        Effects(@, ChunkCalls(req.h, MaxTime, Chunks(req.items)[req.next], ok))]
    /\ req' = [req EXCEPT !.next = @ + 1]
    /\ UNCHANGED <<cfg, indexes, cache, made, given, run, lastOp, bulk, dl, srch>>

\* delete(record) in the other thread: delete_item's one remote call, accepted
RaceDelete ==
    /\ req.phase = "racing"
    /\ ~req.deleted
    /\ remote' = [remote EXCEPT ![req.h.oid.label] =
                     Effects(@, delete_item(req.h, Record(req.victim, NoAttrs), TRUE))]
    /\ req' = [req EXCEPT !.deleted = TRUE]
    /\ UNCHANGED <<cfg, indexes, cache, made, given, run, lastOp, bulk, dl, srch>>

\* MeiliSearchBackend.delete: get_index_for_model(type(obj)).delete_item(obj)
BackendDelete(m) ==
    \E item \in {Record(i, OldAttrs) : i \in 1..MaxId}, ok \in BOOLEAN,
       missing \in MissingChoices(m) :
        LET S == get_index_for_model(Here, m, missing)
            label == get_index_label(m)
            calls == delete_item(S.ret, item, ok)
        IN  /\ indexes' = S.indexes
            /\ cache' = S.cache
            /\ made' = S.made
            /\ given' = S.given
            /\ remote' = [S.remote EXCEPT ![label] = Effects(@, calls)]
            /\ lastOp' = Op("delete_item", label, calls, NoHandle, ~ok, item)
            /\ UNCHANGED <<cfg, run, bulk, dl, req, srch>>

\* MeiliSearchModelIndex._rebuild on the model's handle.  The engine refuses to
\* delete an index it does not have
Rebuild(m) ==
    LET label == get_index_label(m)
    IN  /\ Registered(indexes, label)
        /\ \E missing \in BOOLEAN :
              LET calls == rebuild(indexes[label], remote[label].exists, missing)
              IN  /\ remote' = [remote EXCEPT ![label] = Effects(@, calls)]
                  /\ lastOp' = Op("_rebuild", label, calls, NoHandle,
                                  ~remote[label].exists, NoItem)
        /\ UNCHANGED <<cfg, indexes, cache, made, given, run, bulk, dl, req, srch>>

\* utils.get_indexed_models, in registration order
IndexedModels == <<PageModel, PlainModel>>

RECURSIVE reset_from(_, _, _)
reset_from(R, missing, i) ==
    IF i > Len(IndexedModels) \/ R.raised THEN R
    ELSE LET model == IndexedModels[i]
             label == get_index_label(model)
             G == get_index_for_model(R.st, model, missing)
             calls == rebuild(G.ret, G.remote[label].exists, missing)
         IN  reset_from([st |-> [G EXCEPT !.remote[label] = Effects(@, calls)],
                         calls |-> R.calls \o calls,
                         raised |-> ~G.remote[label].exists], missing, i + 1)

\* MeiliSearchBackend.reset_index
ResetIndex ==
    \E missing \in BOOLEAN :
        LET R == reset_from([st |-> Here, calls |-> <<>>, raised |-> FALSE], missing, 1)
        IN  /\ indexes' = R.st.indexes
            /\ cache' = R.st.cache
            /\ remote' = R.st.remote
            /\ made' = R.st.made
            /\ given' = R.st.given
            /\ lastOp' = Op("reset_index", <<>>, R.calls, NoHandle, R.raised, NoItem)
            /\ UNCHANGED <<cfg, run, bulk, dl, req, srch>>

(***************************************************************************)
(* Specifications                                                          *)
(***************************************************************************)
\* MeiliSettings.__init__ / MeiliSearchBackend.__init__ over the params
Configs ==
    {[update_strategy |-> s, update_delta |-> d, skip_models |-> k] :
        s \in {"hard", "soft", "delta"}, d \in {NoDelta, Window(0 - MaxShift)},
        k \in SUBSET {m.label : m \in Models}}

\* update_delta is read from the params under the delta strategy only
ValidConfig(c) == c.update_strategy # "delta" => c.update_delta = NoDelta

\* a handle another process left in the shared cache
CachedCopy(m) == Handle(Oid(m, 0), m, cfg.update_strategy, cfg.update_delta)

\* two backends of one process, by their settings
BackendPairs ==
    {[phase |-> "built", b |-> <<c1, c2>>, by |-> 0, ret |-> NoHandle] :
     c1, c2 \in {c \in Configs : ValidConfig(c) /\ c.skip_models = {}}}

\* backend k of the two: get_index_for_model(m)
BackendsGet(k, m) ==
    /\ req.phase \in {"built", "asked"}
    /\ \E missing \in BOOLEAN :
          LET S == get_index_for_backend(Here, req.b[k], m, missing)
          IN  /\ indexes' = S.indexes
              /\ cache' = S.cache
              /\ remote' = S.remote
              /\ made' = S.made
              /\ given' = S.given
              /\ req' = [req EXCEPT !.phase = "asked", !.by = k, !.ret = S.ret]
    /\ UNCHANGED <<cfg, run, lastOp, bulk, dl, srch>>

\* a document left in an index by earlier indexing
OldDoc == create_document(PageModel, Record(1, OldAttrs))

\* a process that has just built its backend: nothing registered yet
Fresh ==
    /\ indexes = [l \in Labels |-> NoHandle]
    /\ made = [l \in Labels |-> 0]
    /\ given = [l \in Labels |-> {}]
    /\ run = Idle
    /\ lastOp = Op("init", <<>>, <<>>, NoHandle, FALSE, NoItem)
    /\ bulk = BulkIdle
    /\ dl = DlIdle
    /\ req = ReqIdle
    /\ srch = SrchIdle

\* Indexing runs and the signal handlers, against an engine that starts empty
Init ==
    /\ cfg \in {c \in Configs : ValidConfig(c)}
    /\ cache = [l \in Labels |-> NoHandle]
    /\ remote = [l \in Labels |-> NoIndex]
    /\ Fresh

Next ==
    \/ \E m \in Models : GetIndexForModel(m)
    \/ \E m \in Models : RebuilderStart(m)
    \/ RunAddModel
    \/ RunAddItems
    \/ RebuilderFinish
    \/ \E m \in Models : BackendAdd(m)
    \/ \E m \in Models : BackendDelete(m)

Spec == Init /\ [][Next]_vars

\* The registry against a shared cache and an engine other processes have used
RegistryInit ==
    /\ cfg \in {c \in Configs : ValidConfig(c) /\ c.skip_models = {}}
    /\ \E F \in SUBSET Models :
          cache = [l \in Labels |->
                     IF ModelOfLabel(l) \in F THEN CachedCopy(ModelOfLabel(l)) ELSE NoHandle]
    /\ remote \in [Labels -> {NoIndex, EmptyIndex, [exists |-> TRUE, docs |-> {OldDoc}]}]
    /\ Fresh

RegistryNext ==
    \/ \E m \in Models : GetIndexForModel(m)
    \/ \E l \in Labels : CacheEvict(l)
    \/ \E m \in Models : Rebuild(m)
    \/ ResetIndex

SpecRegistry == RegistryInit /\ [][RegistryNext]_vars

\* a backend at rest, for the specifications of one call on its own
Quiet ==
    /\ cfg = [update_strategy |-> "soft", update_delta |-> NoDelta, skip_models |-> {}]
    /\ cache = [l \in Labels |-> NoHandle]
    /\ remote = [l \in Labels |-> NoIndex]
    /\ indexes = [l \in Labels |-> NoHandle]
    /\ made = [l \in Labels |-> 0]
    /\ given = [l \in Labels |-> {}]
    /\ run = Idle
    /\ lastOp = Op("init", <<>>, <<>>, NoHandle, FALSE, NoItem)

\* one add_items call, about to run
BulkInit == Quiet /\ bulk \in BulkCalls /\ dl = DlIdle /\ req = ReqIdle /\ srch = SrchIdle

BulkNext ==
    BulkAddItems /\ UNCHANGED <<cfg, indexes, cache, remote, made, given, run, lastOp, dl, req, srch>>

SpecBulk == BulkInit /\ [][BulkNext]_vars

\* one _check_deltas call, about to run
DlInit == Quiet /\ dl \in DlCalls /\ bulk = BulkIdle /\ req = ReqIdle /\ srch = SrchIdle

DlNext ==
    DlCheckDeltas /\ UNCHANGED <<cfg, indexes, cache, remote, made, given, run, lastOp, bulk, req, srch>>

SpecDelta == DlInit /\ [][DlNext]_vars

\* one apply_settings call, about to run
SettingsInit == Quiet /\ req \in SettingsCalls /\ bulk = BulkIdle /\ dl = DlIdle /\ srch = SrchIdle

SettingsNext ==
    ApplySettings
    /\ UNCHANGED <<cfg, indexes, cache, remote, made, given, run, lastOp, bulk, dl, srch>>

SpecSettings == SettingsInit /\ [][SettingsNext]_vars

\* one ranked_ids_from_search_results call, about to run
RankInit == Quiet /\ req \in RankCalls /\ bulk = BulkIdle /\ dl = DlIdle /\ srch = SrchIdle

RankNext ==
    RankedIds
    /\ UNCHANGED <<cfg, indexes, cache, remote, made, given, run, lastOp, bulk, dl, srch>>

SpecRank == RankInit /\ [][RankNext]_vars

\* a results object, about to be used
SearchInit ==
    Quiet /\ srch \in SearchObjects /\ bulk = BulkIdle /\ dl = DlIdle /\ req = ReqIdle

SearchNext ==
    \/ SearchFilter
    \/ SearchDoSearch
    \/ SearchDoCount

SpecSearch == SearchInit /\ [][SearchNext]_vars

\* one facet() call, about to run
FacetInit ==
    Quiet /\ req \in FacetCalls /\ bulk = BulkIdle /\ dl = DlIdle /\ srch = SrchIdle

FacetNext ==
    \/ FacetCall
    \/ FacetThenSearch

SpecFacet == FacetInit /\ [][FacetNext]_vars

\* one add_item or add_items call for one item, about to run
DocInit ==
    Quiet /\ req \in DocRequests /\ bulk = BulkIdle /\ dl = DlIdle /\ srch = SrchIdle

DocNext ==
    \/ DocAddItem
    \/ DocAddItems

SpecDoc == DocInit /\ [][DocNext]_vars

\* one record and a process that has built no document yet
MemoInit ==
    Quiet /\ req \in MemoStart /\ bulk = BulkIdle /\ dl = DlIdle /\ srch = SrchIdle

MemoNext ==
    \/ MemoBuild
    \/ MemoChange

SpecMemo == MemoInit /\ [][MemoNext]_vars

\* a backend at rest but for the engine
QuietButRemote ==
    /\ cfg = [update_strategy |-> "soft", update_delta |-> NoDelta, skip_models |-> {}]
    /\ cache = [l \in Labels |-> NoHandle]
    /\ indexes = [l \in Labels |-> NoHandle]
    /\ made = [l \in Labels |-> 0]
    /\ given = [l \in Labels |-> {}]
    /\ run = Idle
    /\ lastOp = Op("init", <<>>, <<>>, NoHandle, FALSE, NoItem)
    /\ bulk = BulkIdle
    /\ dl = DlIdle
    /\ srch = SrchIdle

\* a record about to be added, over any prior state of its model's index
RoundInit ==
    /\ QuietButRemote
    /\ req \in RoundStart
    /\ \E docs \in PriorDocs, exists \in BOOLEAN :
          /\ exists \/ docs = {}
          /\ remote = [l \in Labels |->
                         IF l = req.h.oid.label THEN [exists |-> exists, docs |-> docs]
                         ELSE NoIndex]

RoundNext ==
    \/ RoundAdd
    \/ RoundSearch
    \/ RoundDelete

SpecRound == RoundInit /\ [][RoundNext]_vars

(***************************************************************************)
(* get_index_for_model from several threads.  The method holds no lock; its *)
(* steps are the registry lookup, cache.get, the construction with         *)
(* cache.set, and register.                                                *)
(***************************************************************************)
Threads == 1..MaxThreads

ThreadLabel(t) == get_index_label(req.t[t].model)

\* `if label in self.indexes: return self.indexes.get(label)`
ThreadLookup(t) ==
    /\ req.phase = "threads"
    /\ req.t[t].pc = "called"
    /\ req' = IF Registered(indexes, ThreadLabel(t))
              THEN [req EXCEPT !.t[t].pc = "done", !.t[t].h = indexes[ThreadLabel(t)]]
              ELSE [req EXCEPT !.t[t].pc = "missed"]
    /\ UNCHANGED <<cfg, indexes, cache, remote, made, given, run, lastOp, bulk, dl, srch>>

\* `index = cache.get(cache_key)`
ThreadCacheGet(t) ==
    /\ req.phase = "threads"
    /\ req.t[t].pc = "missed"
    /\ req' = IF cache[ThreadLabel(t)] = NoHandle
              THEN [req EXCEPT !.t[t].pc = "building"]
              ELSE [req EXCEPT !.t[t].pc = "holding", !.t[t].h = cache[ThreadLabel(t)]]
    /\ UNCHANGED <<cfg, indexes, cache, remote, made, given, run, lastOp, bulk, dl, srch>>

\* `index = MeiliSearchModelIndex(...)` and `cache.set(cache_key, index)`
ThreadConstruct(t) ==
    /\ req.phase = "threads"
    /\ req.t[t].pc = "building"
    /\ LET l == ThreadLabel(t)
           index == Handle(Oid(req.t[t].model, made[l] + 1), req.t[t].model,
                           cfg.update_strategy, cfg.update_delta)
       IN  /\ made' = [made EXCEPT ![l] = @ + 1]
           /\ cache' = [cache EXCEPT ![l] = index]
           /\ remote' = [remote EXCEPT ![l] = Effects(@, set_index(FALSE, l, ~@.exists))]
           /\ req' = [req EXCEPT !.t[t].pc = "holding", !.t[t].h = index]
    /\ UNCHANGED <<cfg, indexes, given, run, lastOp, bulk, dl, srch>>

\* `self.register(label, index)` and `return index`
ThreadRegister(t) ==
    /\ req.phase = "threads"
    /\ req.t[t].pc = "holding"
    /\ indexes' = [indexes EXCEPT ![ThreadLabel(t)] = req.t[t].h]
    /\ given' = [given EXCEPT ![ThreadLabel(t)] = @ \cup {req.t[t].h.oid}]
    /\ req' = [req EXCEPT !.t[t].pc = "done"]
    /\ UNCHANGED <<cfg, cache, remote, made, run, lastOp, bulk, dl, srch>>

\* every thread has called get_index_for_model for some model; the registry is
\* empty, the shared cache and the engine hold what earlier processes left
ThreadsInit ==
    /\ cfg = [update_strategy |-> "soft", update_delta |-> NoDelta, skip_models |-> {}]
    /\ \E F \in SUBSET Models :
          cache = [l \in Labels |->
                     IF ModelOfLabel(l) \in F THEN CachedCopy(ModelOfLabel(l)) ELSE NoHandle]
    /\ remote \in [Labels -> {NoIndex, EmptyIndex}]
    /\ req \in {[phase |-> "threads",
                 t |-> [t \in Threads |-> [pc |-> "called", model |-> ms[t], h |-> NoHandle]]] :
                ms \in [Threads -> Models]}
    /\ indexes = [l \in Labels |-> NoHandle]
    /\ made = [l \in Labels |-> 0]
    /\ given = [l \in Labels |-> {}]
    /\ run = Idle
    /\ lastOp = Op("init", <<>>, <<>>, NoHandle, FALSE, NoItem)
    /\ bulk = BulkIdle
    /\ dl = DlIdle
    /\ srch = SrchIdle

ThreadsNext ==
    \/ \E t \in Threads : ThreadLookup(t)
    \/ \E t \in Threads : ThreadCacheGet(t)
    \/ \E t \in Threads : ThreadConstruct(t)
    \/ \E t \in Threads : ThreadRegister(t)

SpecThreads == ThreadsInit /\ [][ThreadsNext]_vars

\* two models of the project, not yet labelled
LabelInit ==
    Quiet /\ req \in LabelStart /\ bulk = BulkIdle /\ dl = DlIdle /\ srch = SrchIdle

LabelNext ==
    \/ LabelBoth
    \/ LabelAgain

SpecLabel == LabelInit /\ [][LabelNext]_vars

\* one start() call, about to run
StartInit ==
    Quiet /\ req \in StartRequests /\ bulk = BulkIdle /\ dl = DlIdle /\ srch = SrchIdle

StartNext ==
    StartCall

SpecStart == StartInit /\ [][StartNext]_vars

\* the backend's write operations called directly, outside any indexing run
DirectInit ==
    /\ cfg \in {c \in Configs : ValidConfig(c)}
    /\ cache = [l \in Labels |-> NoHandle]
    /\ remote = [l \in Labels |-> NoIndex]
    /\ Fresh

DirectNext ==
    \/ \E m \in Models : BackendAdd(m)
    \/ \E m \in Models : BackendAddBulk(m)

SpecDirect == DirectInit /\ [][DirectNext]_vars

\* two backends just constructed in a process whose registry is empty
BackendsInit ==
    /\ cfg = [update_strategy |-> "soft", update_delta |-> NoDelta, skip_models |-> {}]
    /\ cache = [l \in Labels |-> NoHandle]
    /\ remote = [l \in Labels |-> NoIndex]
    /\ indexes = [l \in Labels |-> NoHandle]
    /\ made = [l \in Labels |-> 0]
    /\ given = [l \in Labels |-> {}]
    /\ run = Idle
    /\ lastOp = Op("init", <<>>, <<>>, NoHandle, FALSE, NoItem)
    /\ bulk = BulkIdle
    /\ dl = DlIdle
    /\ srch = SrchIdle
    /\ req \in BackendPairs

BackendsNext ==
    \E k \in 1..2, m \in Models : BackendsGet(k, m)

SpecBackends == BackendsInit /\ [][BackendsNext]_vars

\* both calls made, neither has reached the engine; the index holds the documents
\* of an earlier run or none
RaceInit ==
    /\ QuietButRemote
    /\ req \in RaceStart
    /\ \E full \in BOOLEAN :
          remote = [l \in Labels |->
                      IF l = req.h.oid.label
                      THEN [exists |-> TRUE,
                            docs |-> IF full
                                     THEN {create_document(req.h.model, req.items[i]) :
                                              i \in 1..Len(req.items)}
                                     ELSE {}]
                      ELSE NoIndex]

RaceNext ==
    \/ RaceWriteChunk
    \/ RaceDelete

SpecRace == RaceInit /\ [][RaceNext]_vars

(***************************************************************************)
(* Properties                                                              *)
(***************************************************************************)
HasWrite(names) == \E i \in 1..Len(names) : names[i] \in WriteCalls

RunSkipped == run.phase = "started" /\ ModelOfLabel(run.label).label \in cfg.skip_models

\* C1: in an indexing run for a model of the skip list, start() hands back the
\* no-op sink and neither start() nor any add_model/add_items on it issues a
\* document write, whatever the strategy.
SkipListNoWrite ==
    RunSkipped =>
        /\ run.target = DummyIndex
        /\ ~HasWrite(run.log)
        /\ (lastOp.op \in {"start", "add_model", "add_items"}
               => ~HasWrite(CallNames(lastOp.calls)))

\* a skipped model's run under the hard strategy has been given a non-empty batch
SkipListWitness ==
    /\ RunSkipped
    /\ cfg.update_strategy = "hard"
    /\ lastOp.op = "add_items"
    /\ lastOp.n > 0

RunHard ==
    run.phase = "started" /\ cfg.update_strategy = "hard" /\ run.target # DummyIndex

\* C2: in a run under the hard strategy for a model that is not skipped, every
\* document write of the run comes after the run's delete_all_documents call.
HardClearsBeforeWrites ==
    RunHard =>
        \A i \in 1..Len(run.log) :
            run.log[i] \in WriteCalls
                => \E j \in 1..(i - 1) : run.log[j] = "delete_all_documents"

\* a hard run has cleared and then written
HardClearWitness ==
    /\ RunHard
    /\ Len(run.log) >= 2
    /\ run.log[1] = "delete_all_documents"
    /\ run.log[2] \in WriteCalls

\* C3: under the soft or the delta strategy no start(), add_item, add_items,
\* delete_item or finish() issues delete_all_documents or deletes the index.
SoftDeltaNeverClear ==
    cfg.update_strategy \in {"soft", "delta"} =>
        \A i \in 1..Len(lastOp.calls) :
            lastOp.calls[i].call \notin {"delete_all_documents", "delete"}

\* start() under delta has returned the model's handle, settings pushed
SoftDeltaWitness ==
    /\ cfg.update_strategy = "delta"
    /\ lastOp.op = "start"
    /\ lastOp.ret \notin {NoHandle, DummyIndex}
    /\ Len(lastOp.calls) > 0

BulkReturned == bulk.phase = "returned"

\* a is b with some elements left out, the rest in order
RECURSIVE SubSeqAt(_, _, _, _)
SubSeqAt(a, b, i, j) ==
    IF i > Len(a) THEN TRUE
    ELSE IF j > Len(b) THEN FALSE
    ELSE IF a[i] = b[j] THEN SubSeqAt(a, b, i + 1, j + 1)
    ELSE SubSeqAt(a, b, i, j + 1)

\* what the same handle would be under the soft strategy
AsSoft(h) == Handle(h.oid, h.model, "soft", NoDelta)

\* C4: for the same batch, the documents add_items writes under delta are a
\* sub-list of those it writes under soft, in no more write calls.
DeltaWritesSubsetOfSoft ==
    (BulkReturned /\ bulk.h.update_strategy = "delta") =>
        LET soft == add_items(AsSoft(bulk.h), bulk.now, BatchItems(bulk), bulk.fails)
        IN  /\ SubSeqAt(CallDocs(bulk.calls), CallDocs(soft), 1, 1)
            /\ Len(bulk.calls) <= Len(soft)

\* delta wrote some but not all of a batch of several chunks, and skipped a chunk
DeltaSubsetWitness ==
    /\ BulkReturned
    /\ bulk.h.update_strategy = "delta"
    /\ bulk.n > ChunkSize
    /\ Len(CallDocs(bulk.calls)) > 0
    /\ Len(CallDocs(bulk.calls)) < bulk.n
    /\ Len(bulk.calls) < Len(Chunks(BatchItems(bulk)))

ItemDocs(h, items) == [i \in 1..Len(items) |-> create_document(h.model, items[i])]

\* C5: under soft or hard with no write failure, N records give ceil(N/100)
\* write calls, each of at most 100 documents and all but the last of exactly
\* 100, whose documents in call order are the input's documents in input order.
BulkChunking ==
    (BulkReturned /\ bulk.h.update_strategy \in {"soft", "hard"} /\ bulk.fails = {}) =>
        /\ Len(bulk.calls) * ChunkSize >= bulk.n
        /\ Len(bulk.calls) * ChunkSize < bulk.n + ChunkSize
        /\ \A i \in 1..Len(bulk.calls) :
              /\ bulk.calls[i].call \in WriteCalls
              /\ Len(bulk.calls[i].docs) <= ChunkSize
              /\ i < Len(bulk.calls) => Len(bulk.calls[i].docs) = ChunkSize
        /\ CallDocs(bulk.calls) = ItemDocs(bulk.h, BatchItems(bulk))

\* more than two full chunks were written: three calls, the last one short
BulkChunkingWitness ==
    /\ BulkReturned
    /\ bulk.h.update_strategy = "soft"
    /\ bulk.fails = {}
    /\ bulk.n > 2 * ChunkSize
    /\ Len(bulk.calls) = 3
    /\ Len(bulk.calls[3].docs) = bulk.n - 2 * ChunkSize

\* a record counts as recent: its model declares a delta field and one of its
\* delta-field attributes holds a datetime after since
Recent(model, obj, since) ==
    /\ \E f \in DeltaFieldSet : f \in model.fields
    /\ \E f \in DeltaFieldSet \cap DOMAIN obj.attrs :
          obj.attrs[f].k = "datetime" /\ obj.attrs[f].t > since

\* the records a handle's add_items is to write
ToWrite(h, now, items) ==
    IF h.update_strategy # "delta" THEN items
    ELSE IF ~h.update_delta.truthy THEN <<>>
    ELSE SelectSeq(items, LAMBDA o : Recent(h.model, o, now + h.update_delta.shift))

\* C6: whichever batches' writes fail, add_items still attempts the write of
\* every batch, in input order.
BulkContinuesAfterFailure ==
    BulkReturned =>
        /\ CallDocs(bulk.calls) = ItemDocs(bulk.h, ToWrite(bulk.h, bulk.now, BatchItems(bulk)))
        /\ \A i \in 1..Len(bulk.calls) : Len(bulk.calls[i].docs) > 0

\* the first of three writes failed and the two after it were made
BulkFailureWitness ==
    /\ BulkReturned
    /\ Len(bulk.calls) = 3
    /\ ~bulk.calls[1].ok
    /\ bulk.calls[2].ok
    /\ ~bulk.calls[3].ok

DlReturned == dl.phase = "returned"

\* C7: with a window configured, _check_deltas returns exactly the records of
\* its input that are recent (declared delta field, some delta-field value
\* strictly after now + window), each once and in input order.
CheckDeltasExact ==
    (DlReturned /\ dl.update_delta.truthy) =>
        dl.out = SelectSeq(dl.objects,
                           LAMBDA o : Recent(dl.model, o, dl.now + dl.update_delta.shift))

\* a record dated exactly at the threshold was dropped and another one kept
CheckDeltasWitness ==
    /\ DlReturned
    /\ dl.update_delta.truthy
    /\ Len(dl.out) = 1
    /\ \E i \in 1..Len(dl.objects) :
          dl.objects[i].attrs = Attr1("updated_at", DateTime(dl.now + dl.update_delta.shift))

OneHandlePerLabel ==
    /\ \A l \in Labels : made[l] <= 1 /\ Cardinality(given[l]) <= 1
    /\ lastOp.op = "get_index_for_model" =>
          lastOp.ret # NoHandle /\ lastOp.ret = indexes[lastOp.label]

\* a call made after the cache dropped the entry of a handle constructed here
OneHandleWitness ==
    /\ lastOp.op = "get_index_for_model"
    /\ made[lastOp.label] = 1
    /\ cache[lastOp.label] = NoHandle

\* C10: once _rebuild (or reset_index, for every indexed model) has returned,
\* the model's remote index exists and holds no documents.
RebuildRecreatesIndex ==
    /\ (lastOp.op = "_rebuild" /\ ~lastOp.raised) => remote[lastOp.label] = EmptyIndex
    /\ (lastOp.op = "reset_index" /\ ~lastOp.raised) =>
          \A l \in Labels : remote[l] = EmptyIndex

\* C11: whichever of the settings pushes the engine refuses, apply_settings
\* still attempts every push of the model, in order, and returns without raising.
ApplySettingsFaultTolerant ==
    (req.phase = "returned" /\ req.fn = "apply_settings") =>
        /\ ~req.raised
        /\ Len(req.calls) = Len(SettingsPushes(req.h.model))
        /\ \A i \in 1..Len(req.calls) :
              /\ req.calls[i].call = SettingsPushes(req.h.model)[i].call
              /\ req.calls[i].docs = <<SettingsPushes(req.h.model)[i].arg>>
              /\ req.calls[i].ok = (i \notin req.fails)

\* the first and the third of five pushes were refused and the last one was made
ApplySettingsWitness ==
    /\ req.phase = "returned"
    /\ req.fn = "apply_settings"
    /\ Len(req.calls) = 5
    /\ ~req.calls[1].ok
    /\ ~req.calls[3].ok
    /\ req.calls[5].ok

RankReturned == req.phase = "returned" /\ req.fn = "ranked_ids"

\* every hit of a response that carries a primary key, in response order
MergedHits(results) ==
    LET all == IF "hits" \in results.keys THEN results.hits
               ELSE IF "results" \in results.keys
                    THEN LET parts == results.results
                             F[i \in 0..Len(parts)] ==
                                 IF i = 0 THEN <<>>
                                 ELSE F[i - 1] \o (IF parts[i].has_hits THEN parts[i].hits ELSE <<>>)
                         IN  F[Len(parts)]
                    ELSE <<>>
    IN  SelectSeq(all, LAMBDA h : "id" \in h.keys)

\* the boosts the fallback score weighs a field by: title 10, body none
BoostOf(field) == IF field = "title" THEN 10 ELSE 1

\* the fallback score: sum over matched fields of serialized length times boost
FallbackScore(hit) ==
    LET fs == DOMAIN hit.matches
        Sum[S \in SUBSET fs] ==
            IF S = {} THEN 0
            ELSE LET f == CHOOSE x \in S : TRUE
                 IN  hit.matches[f] * BoostOf(f) + Sum[S \ {f}]
    IN  Sum[fs]

\* the score a hit is to be given: native when carried, else the fallback
SpecifiedScore(hit) ==
    IF "_rankingScore" \in hit.keys THEN hit.score ELSE FallbackScore(hit)

CountIn(seq, x) == Cardinality({i \in 1..Len(seq) : seq[i] = x})

\* C14: every merged hit is scored by its native ranking score when it has one
\* and by the fallback score (sum of match length times boost) when it has not.
HitScoresAsSpecified ==
    RankReturned =>
        LET merged == MergedHits(req.results)
            want == [i \in 1..Len(merged) |->
                        [id |-> merged[i].id, score |-> SpecifiedScore(merged[i])]]
        IN  /\ Len(req.out) = Len(want)
            /\ \A i \in 1..Len(want) : CountIn(req.out, want[i]) = CountIn(want, want[i])

\* C15: for a multi-index response and for a single-index response alike, the
\* ranked list is in non-increasing score order over all merged hits.
RankedListSortedGlobally ==
    RankReturned =>
        \A i \in 1..Len(req.out), j \in 1..Len(req.out) :
            i < j => req.out[i].score >= req.out[j].score

Searched == srch.op \in {"filter", "_do_search"} /\ ~srch.raised

\* the uids that were sent a sub-query by the last operation
QueriedUids ==
    UNION {{srch.log[i].uids[k] : k \in 1..Len(srch.log[i].uids)} :
           i \in {j \in 1..Len(srch.log) : srch.log[j].call = "multi_search"}}

\* the existing indexes of the base model and its subtypes
RelatedLive ==
    {l \in SearchLabelSet :
        /\ srch.engine[l].exists
        /\ \E i \in 1..Len(AppModels) :
              get_index_label(AppModels[i]) = l /\ issubclass(AppModels[i], srch.model)}

\* C12: a search on base model M sends a sub-query to exactly the indexes that
\* exist on the engine and belong to M or a subtype of M.
FanOutIsRelatedLive == Searched => QueriedUids = RelatedLive

\* C13: filter() given an empty list, or a list with an item that is not a
\* 2-element pair, raises and makes no remote call at all.
FilterRejectsMalformed ==
    (srch.op = "filter"
        /\ (Len(srch.filters) = 0
            \/ \E i \in 1..Len(srch.filters) :
                  ~srch.filters[i].tuple \/ srch.filters[i].len # 2)) =>
        srch.raised /\ srch.log = <<>>

\* filter() was given a well-formed pair followed by a 3-element item, on an
\* engine that has indexes to query
FilterRejectsWitness ==
    /\ srch.op = "filter"
    /\ srch.raised
    /\ Len(srch.filters) = 2
    /\ srch.filters[2].len = 3
    /\ \E l \in SearchLabelSet : srch.engine[l].exists

\* the merged, globally sorted hit list of the last search
SortedHitList ==
    ranked_ids_from_search_results(
        multi_search(srch.engine,
                     build_queries(srch, get_descendant_models(srch.model),
                                   srch.filters, srch.operator).queries))

\* C16: the rows a search returns are exactly the rows of the base queryset
\* whose ids stand at positions start .. stop-1 of the sorted hit list.
WindowIsExact ==
    Searched =>
        {srch.rows[i] : i \in 1..Len(srch.rows)}
            = srch.qs \cap {SortedHitList[i].id :
                               i \in {k \in 1..Len(SortedHitList) :
                                        /\ k > srch.start
                                        /\ srch.stop # NoStop => k <= srch.stop}}

\* a window [1:2] cut from a list of three hits that two indexes contributed
WindowWitness ==
    /\ Searched
    /\ srch.start = 1
    /\ srch.stop = 2
    /\ Len(SortedHitList) >= 3
    /\ Len(srch.log[Len(srch.log)].uids) >= 2
    /\ Len(srch.rows) = 1

\* the highest score among the hits of a record
BestScore(pk) ==
    LET scores == {SortedHitList[i].score :
                      i \in {k \in 1..Len(SortedHitList) : SortedHitList[k].id = pk}}
    IN  CHOOSE m \in scores : \A x \in scores : x <= m

\* C17: under relevance ordering, row a comes before row b whenever a's best
\* hit scores higher than b's best hit, also for a record several indexes return.
RowsFollowBestHit ==
    (Searched /\ srch.order_by_relevance) =>
        \A i, j \in 1..Len(srch.rows) :
            BestScore(srch.rows[i]) > BestScore(srch.rows[j]) => i < j

\* the hits of the query over the existing indexes of the base model and its subtypes
TotalHits ==
    LET n[S \in SUBSET RelatedLive] ==
            IF S = {} THEN 0
            ELSE LET l == CHOOSE x \in S : TRUE
                 IN  Len(srch.engine[l].docs) + n[S \ {l}]
    IN  n[RelatedLive]

\* every hit of the query is a different row of the base queryset, and the engine
\* holds no index of an unrelated model
HitsAreRows ==
    /\ \A l \in SearchLabelSet : srch.engine[l].exists => l \in RelatedLive
    /\ \A l \in RelatedLive : \A i \in 1..Len(srch.engine[l].docs) :
          /\ srch.engine[l].docs[i].id \in srch.qs
          /\ \A m \in RelatedLive : \A k \in 1..Len(srch.engine[m].docs) :
                srch.engine[m].docs[k].id = srch.engine[l].docs[i].id => (m = l /\ k = i)

\* C18: count is the number of hits summed over the active indexes, whatever
\* window the result object has and whether or not rows were fetched before.
CountIsTotalHits ==
    (srch.op = "_do_count" /\ ~srch.raised /\ HitsAreRows) => srch.count = TotalHits

\* the count of a facet value in a distribution (0 when it is not there)
CountOf(dist, v) ==
    IF \E i \in 1..Len(dist) : dist[i].value = v
    THEN dist[CHOOSE i \in 1..Len(dist) : dist[i].value = v].count
    ELSE 0

\* the sum of a facet value's counts over the indexes that contribute
SummedCount(infos, v) ==
    LET F[i \in 0..Len(infos)] ==
            IF i = 0 THEN 0
            ELSE F[i - 1] + (IF infos[i].filterable /\ infos[i].has_dist
                             THEN CountOf(infos[i].dist, v) ELSE 0)
    IN  F[Len(infos)]

\* C19: facet() returns, for every facet value, the sum of its counts over the
\* indexes that list the field as filterable, in descending order of count.
FacetSumsCounts ==
    (req.phase = "returned" /\ req.fn = "facet") =>
        /\ \A v \in {"58", "75"} : CountOf(req.out, v) = SummedCount(req.infos, v)
        /\ \A i, j \in 1..Len(req.out) : i < j => req.out[i].count >= req.out[j].count

\* the keys of a DocModel document, by field
PlainKeyOf == [title |-> "title", tag |-> "tag_filter", intro |-> "intro_ngrams"]

SubKeyOf == [name |-> "author__name", bio |-> "author__bio_filter"]

\* the sub-fields of the related group that cannot be extracted from the item
FailedSubs(item) ==
    IF item.author.kind = "manager" THEN item.author.broken \cup item.author.unknown
    ELSE IF item.author.kind = "model" THEN item.author.broken
    ELSE {"name", "bio"}

\* id, and the key of every field and sub-field whose extraction works
KeysThatWork(item) ==
    {"id"} \cup {PlainKeyOf[f] : f \in {"title", "tag", "intro"} \ item.broken}
           \cup {SubKeyOf[f] : f \in {"name", "bio"} \ FailedSubs(item)}

DocReturned == req.phase = "returned" /\ req.fn \in {"add_item", "add_items"}

\* C20: when extracting a plain field, a related-field group or a sub-field of a group
\* fails for an item, add_item and add_items still return normally and write one
\* document that has id and every key whose extraction works, and no other key
DocumentOmitsOnlyFailedFields ==
    DocReturned =>
        /\ ~req.raised
        /\ Len(req.calls) = 1
        /\ Len(req.calls[1].docs) = 1
        /\ DOMAIN req.calls[1].docs[1] = KeysThatWork(req.item)

\* C21: building a document is a pure transform of the field declarations and the
\* record's current values: the document a call returns is the one for the values the
\* record has at that call, whatever was built before, and so two calls on an
\* unchanged record return the same document
BuildDocumentIsPure ==
    req.phase = "built" =>
        /\ req.out = create_document(DocModel, req.item)
        /\ req.prev # NoDoc => req.out = req.prev

\* C22: after add(record) a search for a term only that record holds returns the
\* record as its sole hit, and after the following delete(record) the same search
\* returns no hit, under every update strategy and from any prior index state
RoundTrip ==
    /\ req.phase = "found" => req.hits = <<1>>
    /\ req.phase = "gone" => req.hits = <<>>

ThreadsDone == req.phase = "threads" /\ \A t \in Threads : req.t[t].pc = "done"

\* C23: when several threads call get_index_for_model at once, for the same or for
\* different models, then once all calls have returned the registry maps each
\* requested label to one handle and every caller got that handle
ThreadsShareOneHandle ==
    ThreadsDone =>
        \A t \in Threads :
            /\ indexes[ThreadLabel(t)] # NoHandle
            /\ req.t[t].h = indexes[ThreadLabel(t)]

Labelled == req.phase \in {"labelled", "relabelled"}

\* C24: the label of a model is its fully-qualified name with "." replaced by "-";
\* a repeated call gives the same label, the registry's own derivation gives the same
\* label, two distinct models never share a label, and replacing "-" by "." in the
\* label gives back the model's name
LabelStableAndInjective ==
    /\ Labelled =>
          /\ req.la = registry_get_label(req.a)
          /\ req.a # req.b => req.la # req.lb
          /\ status_model_name(req.la) = req.a.label
          /\ status_model_name(req.lb) = req.b.label
    /\ req.phase = "relabelled" => req.again = req.la

\* two distinct models in one app whose class names differ in one character, both
\* labelled, the first one twice
LabelWitness ==
    /\ req.phase = "relabelled"
    /\ req.a # req.b
    /\ Len(req.a.label) = 2 * MaxName + 1
    /\ \E i \in 1..Len(req.la) : req.la[i] = "-"

\* start() returned the handle of a model that is not skipped
StartReturnedHandle ==
    /\ req.phase = "returned"
    /\ req.fn = "start"
    /\ ~req.raised
    /\ req.ret # DummyIndex

FivePushes ==
    <<"pagination", "searchableAttributes", "content_type_id_filter", "rankingRules",
      "stopWords">>

HasSearchable(model) ==
    \E i \in 1..Len(model.search_fields) :
        model.search_fields[i].kind \in {"search", "autocomplete"}

\* the arguments of the calls from the n-th on
ArgsFrom(calls, n) == [i \in 1..(Len(calls) - n + 1) |-> calls[i + n - 1].docs[1]]

FilteredByAnd ==
    /\ srch.phase = "ready"
    /\ srch.op = "filter"
    /\ ~srch.raised
    /\ srch.operator = "AND"

\* a document of some index of the engine, with this id, that satisfies every pair
SatisfyingDoc(id) ==
    \E l \in SearchLabelSet :
        \E k \in 1..Len(srch.engine[l].docs) :
            /\ srch.engine[l].docs[k].id = id
            /\ \A i \in 1..Len(srch.filters) :
                  ClauseHolds(srch.engine[l].docs[k], srch.filters[i])

\* C26: when filter is called with operator AND and a list of (field, value) pairs,
\* every record it returns comes from a hit whose document satisfies every pair,
\* also in an index that does not list one of the fields as filterable
FilterAndKeepsEveryClause ==
    FilteredByAnd => \A r \in 1..Len(srch.rows) : SatisfyingDoc(srch.rows[r])

\* C27: facet and the per-index search it uses leave the backend's default search
\* parameters as they were: a search made after a facet call sends limit,
\* attributesToRetrieve, showMatchesPosition and showRankingScore as set when the
\* backend was constructed, and no facets entry
FacetLeavesSearchParams ==
    (req.phase = "searched" /\ req.fn = "facet") => req.sent = init_search_params

\* C28: for a model of the skip list, add(record) and add_bulk(model, records) called
\* directly on the backend issue no document write to the engine
DirectWritesHonourSkipList ==
    (/\ lastOp.op \in {"add_item", "add_bulk"}
     /\ Skipped(ModelOfLabel(lastOp.label), cfg.skip_models))
        => ~HasWrite(CallNames(lastOp.calls))

\* C29: with two backends of different settings in one process, the handle a
\* backend's registry returns for a model carries the update strategy and the delta
\* window of the backend that asked, whichever backend resolved the label first
HandleBoundToAskingBackend ==
    req.phase = "asked" =>
        /\ req.ret.update_strategy = req.b[req.by].update_strategy
        /\ req.ret.update_delta = req.b[req.by].update_delta

RaceOver ==
    /\ req.phase = "racing"
    /\ req.deleted
    /\ req.next > Len(Chunks(req.items))

\* C30: when delete(record) runs concurrently with a bulk add whose list holds the
\* record, then in every interleaving, once both calls have returned, the index
\* holds no document of the deleted record
DeletedStaysDeleted ==
    RaceOver => \A d \in remote[req.h.oid.label].docs : d.id # req.victim
====
